---- MODULE Spec2Model ----
(***************************************************************************)
(* A model of sftpgo-manager: the tenant registry (db.go), the bearer     *)
(* middleware (auth.go), the SFTPGo admin client with its token cache     *)
(* (sftpgo_client.go), the HTTP handlers (handlers.go), the CSV ingestion  *)
(* worker (worker.go) and the start and stop of the process (main.go).    *)
(*                                                                         *)
(* Every HTTP request is served by its own goroutine: a request occupies  *)
(* one slot of Procs, and a handler is cut into one step per registry     *)
(* statement or external call, which is where goroutines interleave.      *)
(* Strings that the code only compares are TLA+ strings; a public key,    *)
(* which the code splits into fields, is a sequence of characters.        *)
(***************************************************************************)
EXTENDS Integers, Sequences, FiniteSets, TLC

(* ------------------------------ bounds -------------------------------- *)

\* Largest row id the tenants table is allowed to reach.
MaxId == 2
\* Last instant of the clock.
MaxTime == 2
\* Longest public key string of the key-matching specification.
MaxKeyLen == 5
\* The number of data rows read from one CSV file.
MaxRows == 2
\* The number of upload events the service receives.
MaxUploads == 2

\* Goroutines serving requests at the same time.
Procs == {"g1", "g2"}
\* The goroutines the upload hook detaches.
Workers == {"w1", "w2"}

Usernames == {"alice", "bob"}
\* Passwords a caller may supply ("" = none supplied).
Passwords == {"", "pw1", "pw2"}
\* Outcomes of rand.Read + hex for a generated password / tenant token / api key.
GenPasswords == {"gen1"}
TenantIDs == {"t1", "t2"}
APIKeyValues == {"k1"}
\* Tokens the external server may issue ("" = a body without access_token).
TokenValues == {"", "tokA", "tokB"}

\* Characters of a public key string; " " is the white space.
KeyAlphabet == {"a", "b", " "}
EmptyKey == << >>
KeyA == <<"a", " ", "b">>
KeyB == <<"b", " ", "b", " ", "a">>
KeyC == <<"a", " ", "a">>
\* Public keys used by the provisioning requests.
PubKeys == {EmptyKey, KeyA, KeyB, KeyC}

(* --------------------------- program constants ------------------------ *)

\* c.tokenExp = result.ExpiresAt.Add(-30 * time.Second)
TokenSkew == 30

StatusOK == 200
StatusCreated == 201
StatusBadRequest == 400
StatusUnauthorized == 401
StatusForbidden == 403
StatusNotFound == 404
StatusMethodNotAllowed == 405
StatusInternalServerError == 500
StatusBadGateway == 502

(* ------------------------------- state -------------------------------- *)

VARIABLES
    apiKeys,    \* table api_keys: the set of stored key values
    tenants,    \* table tenants: a set of rows
    extUsers,   \* the external server's users, one per username
    token,      \* SFTPGoClient.token
    tokenExp,   \* SFTPGoClient.tokenExp
    now,        \* time.Now()
    reported,   \* history: expires_at of the response that filled the cache
    procs,      \* per goroutine: the request it serves and its answer
    mu,         \* SFTPGoClient.mu: the goroutine that holds it, or ""
    workerOn,   \* Handlers.worker # nil
    workers,    \* per detached goroutine: the ingestion it runs
    records,    \* table records: a set of rows
    uploads,    \* the number of upload events received
    mainPc      \* where main() is: serving, or on its way out after a signal

vars == <<apiKeys, tenants, extUsers, token, tokenExp, now, reported, procs,
          mu, workerOn, workers, records, uploads, mainPc>>
clientVars == <<token, tokenExp, reported>>
ingestVars == <<workerOn, workers, records, uploads>>

(* ------------------------- strings (package strings) ------------------ *)

\* unicode.IsSpace on the model's alphabet.
IsSpace(c) == c = " "

RECURSIVE TrimLeft(_)
TrimLeft(s) ==
    IF s # << >> /\ IsSpace(Head(s)) THEN TrimLeft(Tail(s)) ELSE s

RECURSIVE TrimRight(_)
TrimRight(s) ==
    IF s # << >> /\ IsSpace(s[Len(s)]) THEN TrimRight(SubSeq(s, 1, Len(s) - 1)) ELSE s

\* strings.TrimSpace
TrimSpace(s) == TrimRight(TrimLeft(s))

\* The longest prefix of s that holds no white space.
RECURSIVE TakeWord(_)
TakeWord(s) ==
    IF s = << >> \/ IsSpace(Head(s)) THEN << >> ELSE <<Head(s)>> \o TakeWord(Tail(s))

\* strings.Fields: the maximal runs of non-space characters, in order.
RECURSIVE Fields(_)
Fields(s) ==
    LET t == TrimLeft(s) IN
    IF t = << >> THEN << >>
    ELSE LET w == TakeWord(t) IN <<w>> \o Fields(SubSeq(t, Len(w) + 1, Len(t)))

\* All strings over KeyAlphabet of length at most n.
RECURSIVE StringsUpTo(_)
StringsUpTo(n) ==
    IF n = 0 THEN {<< >>}
    ELSE LET shorter == StringsUpTo(n - 1) IN
         shorter \cup {Append(s, c) : s \in {x \in shorter : Len(x) = n - 1}, c \in KeyAlphabet}

(* ------------------------- the registry (db.go) ----------------------- *)

\* A row of table tenants (home_dir is DataDir joined with tenant_id).
TenantRow(id, tenantID, username, password, publicKey) ==
    [id |-> id, tenant_id |-> tenantID, username |-> username,
     password |-> password, public_key |-> publicKey]

Max(S) == CHOOSE x \in S : \A y \in S : y <= x

\* INTEGER PRIMARY KEY without AUTOINCREMENT: one more than the largest rowid.
NextRowId == IF tenants = {} THEN 1 ELSE Max({t.id : t \in tenants}) + 1

\* Keys that lapse when the clock moves on.
ValidateAPIKeyExpiring(key) == key \in apiKeys /\ now = 0

\* DB.ValidateAPIKey: the key is a row of api_keys.
ValidateAPIKey(key) == key \in apiKeys

\* The rows that SELECT ... WHERE id = ? scans.
RowsById(id) == {t \in tenants : t.id = id}
\* The rows that SELECT ... WHERE username = ? scans.
RowsByUsername(username) == {t \in tenants : t.username = username}

\* DB.GetTenant: the row, when QueryRow(...).Scan finds one.
GetTenant(id) == CHOOSE t \in tenants : t.id = id
\* DB.GetTenantByUsername
GetTenantByUsername(username) == CHOOSE t \in tenants : t.username = username

\* A table whose only UNIQUE column is tenant_id.
TenantInsertableByToken(tenantID, username) ==
    \A t \in tenants : t.tenant_id # tenantID

\* The UNIQUE constraints of table tenants accept the insert.
TenantInsertable(tenantID, username) ==
    \A t \in tenants : t.tenant_id # tenantID /\ t.username # username

\* A table that keeps no password: the column takes its default ''.
DBCreateTenantBlank(tenantID, username, password, publicKey) ==
    tenants \cup {TenantRow(NextRowId, tenantID, username, "", publicKey)}

\* DB.CreateTenant: the table after a successful INSERT.
DBCreateTenant(tenantID, username, password, publicKey) ==
    tenants \cup {TenantRow(NextRowId, tenantID, username, password, publicKey)}

\* An UPDATE that sets the key only of a row that has none.
UpdateTenantPublicKeyIfNone(id, publicKey) ==
    {IF t.id = id /\ t.public_key = EmptyKey THEN [t EXCEPT !.public_key = publicKey] ELSE t :
        t \in tenants}

\* DB.UpdateTenantPublicKey: UPDATE tenants SET public_key = ? WHERE id = ?
UpdateTenantPublicKey(id, publicKey) ==
    {IF t.id = id THEN [t EXCEPT !.public_key = publicKey] ELSE t : t \in tenants}

\* A DELETE that removes nothing.
DeleteRowNone(id) == tenants

\* DELETE FROM tenants WHERE id = ?
DeleteRow(id) == {t \in tenants : t.id # id}

(* -------------------- the external server (SFTPGo) -------------------- *)

\* What GET /api/v2/token may answer: a failure (transport error, a status
\* other than 200, an undecodable body), or a token with its expiry.
TokenFailure == [ok |-> FALSE, access_token |-> "", expires_at |-> 0]
ExpiresAts == TokenSkew .. (TokenSkew + MaxTime + 1)
TokenResponses ==
    {TokenFailure} \cup [ok : {TRUE}, access_token : TokenValues, expires_at : ExpiresAts]
\* The answers drawn while requests are provisioned (the clock stands still there).
ProvTokenResponses ==
    {TokenFailure} \cup
    [ok : {TRUE}, access_token : {"tokA"}, expires_at : {TokenSkew + now, TokenSkew + now + 1}]

\* LoadConfig of a deployment with the object store configured (S3_ENDPOINT is
\* set): the configuration is read once, before the server starts.
cfg ==
    [S3Bucket |-> "sftpgo", S3Region |-> "us-east-1", S3Endpoint |-> "http://minio:9000",
     S3AccessKey |-> "access", S3SecretKey |-> "secret"]

\* The user the external server stores for a create-user payload, with the
\* filesystem CreateUser puts in the payload when s3 is not nil.
ExtUser(username, password, publicKeys, tenantID) ==
    [username |-> username, password |-> password, public_keys |-> publicKeys,
     filesystem |->
        [provider |-> 1,
         s3config |-> [bucket |-> cfg.S3Bucket, region |-> cfg.S3Region,
                       endpoint |-> cfg.S3Endpoint, access_key |-> cfg.S3AccessKey,
                       access_secret |-> cfg.S3SecretKey,
                       key_prefix |-> <<tenantID, "/">>]]]

\* The usernames the external server knows.
ExtNames == {x.username : x \in extUsers}

(* ------------------ the admin client (sftpgo_client.go) --------------- *)

\* getToken caching until the reported expiry itself.
getTokenNoSkew(r) ==
    IF token # "" /\ now < tokenExp
    THEN [err |-> << >>, value |-> token, token |-> token, tokenExp |-> tokenExp,
          reported |-> reported, sent |-> << >>]
    ELSE IF ~r.ok
    THEN [err |-> <<"token request failed">>, value |-> "", token |-> token,
          tokenExp |-> tokenExp, reported |-> reported, sent |-> <<"token_request">>]
    ELSE [err |-> << >>, value |-> r.access_token, token |-> r.access_token,
          tokenExp |-> r.expires_at, reported |-> r.expires_at,
          sent |-> <<"token_request">>]

\* A getToken that drops the cached token when the token request fails.
getTokenDropping(r) ==
    IF token # "" /\ now < tokenExp
    THEN [err |-> << >>, value |-> token, token |-> token, tokenExp |-> tokenExp,
          reported |-> reported, sent |-> << >>]
    ELSE IF ~r.ok
    THEN [err |-> <<"token request failed">>, value |-> "", token |-> "",
          tokenExp |-> 0, reported |-> reported, sent |-> <<"token_request">>]
    ELSE [err |-> << >>, value |-> r.access_token, token |-> r.access_token,
          tokenExp |-> r.expires_at - TokenSkew, reported |-> r.expires_at,
          sent |-> <<"token_request">>]

\* SFTPGoClient.getToken, run under c.mu from Lock to the deferred Unlock, with r
\* the answer the token endpoint gives if it is asked. The result: the error, the
\* token returned, the cache it leaves, and the token requests it sent.
getToken(r) ==
    IF token # "" /\ now < tokenExp
    THEN [err |-> << >>, value |-> token, token |-> token, tokenExp |-> tokenExp,
          reported |-> reported, sent |-> << >>]
    ELSE IF ~r.ok
    THEN [err |-> <<"token request failed">>, value |-> "", token |-> token,
          tokenExp |-> tokenExp, reported |-> reported, sent |-> <<"token_request">>]
    ELSE [err |-> << >>, value |-> r.access_token, token |-> r.access_token,
          tokenExp |-> r.expires_at - TokenSkew, reported |-> r.expires_at,
          sent |-> <<"token_request">>]

\* The cache after a getToken call with result t.
CacheAfter(t) ==
    /\ token' = t.token
    /\ tokenExp' = t.tokenExp
    /\ reported' = t.reported

\* SFTPGoClient.doAuth sends the request only with a token; the server serves a
\* request (srvOk) only under a bearer token it issued.
Served(t, srvOk) == t.err = << >> /\ t.value # "" /\ srvOk

\* SFTPGoClient.CreateUser: POST /api/v2/users answers 201 only for a new username.
CreateUser(t, srvOk, username, password, publicKeys, tenantID) ==
    IF t.err # << >> THEN [err |-> t.err, users |-> extUsers, sent |-> t.sent]
    ELSE IF Served(t, srvOk) /\ username \notin ExtNames
    THEN [err |-> << >>,
          users |-> extUsers \cup {ExtUser(username, password, publicKeys, tenantID)},
          sent |-> t.sent \o <<"create_user">>]
    ELSE [err |-> <<"sftpgo create user">>, users |-> extUsers,
          sent |-> t.sent \o <<"create_user">>]

\* UpdateUserPublicKeys adding the keys to the user's instead of replacing them.
UpdateUserPublicKeysAdded(t, srvOk, username, keys) ==
    IF t.err # << >> THEN [err |-> t.err, users |-> extUsers, sent |-> t.sent]
    ELSE IF Served(t, srvOk) /\ username \in ExtNames
    THEN [err |-> << >>,
          users |-> {IF x.username = username
                     THEN [x EXCEPT !.public_keys = @ \o keys] ELSE x : x \in extUsers},
          sent |-> t.sent \o <<"update_user">>]
    ELSE [err |-> <<"sftpgo update user keys">>, users |-> extUsers,
          sent |-> t.sent \o <<"update_user">>]

\* SFTPGoClient.UpdateUserPublicKeys: PUT /api/v2/users/{username} answers 200 for
\* an existing user, whose keys it replaces.
UpdateUserPublicKeys(t, srvOk, username, keys) ==
    IF t.err # << >> THEN [err |-> t.err, users |-> extUsers, sent |-> t.sent]
    ELSE IF Served(t, srvOk) /\ username \in ExtNames
    THEN [err |-> << >>,
          users |-> {IF x.username = username THEN [x EXCEPT !.public_keys = keys] ELSE x :
                     x \in extUsers},
          sent |-> t.sent \o <<"update_user">>]
    ELSE [err |-> <<"sftpgo update user keys">>, users |-> extUsers,
          sent |-> t.sent \o <<"update_user">>]

\* A DeleteUser that sends the DELETE once more when the first one fails.
DeleteUserRetrying(t, srvOk, username) ==
    IF t.err # << >> THEN [err |-> t.err, users |-> extUsers, sent |-> t.sent]
    ELSE IF Served(t, srvOk) /\ username \in ExtNames
    THEN [err |-> << >>,
          users |-> {x \in extUsers : x.username # username},
          sent |-> t.sent \o <<"delete_user">>]
    ELSE [err |-> <<"sftpgo delete user">>, users |-> extUsers,
          sent |-> t.sent \o <<"delete_user", "delete_user">>]

\* SFTPGoClient.DeleteUser: DELETE /api/v2/users/{username} answers 200 for an
\* existing user, which it removes.
DeleteUser(t, srvOk, username) ==
    IF t.err # << >> THEN [err |-> t.err, users |-> extUsers, sent |-> t.sent]
    ELSE IF Served(t, srvOk) /\ username \in ExtNames
    THEN [err |-> << >>,
          users |-> {x \in extUsers : x.username # username},
          sent |-> t.sent \o <<"delete_user">>]
    ELSE [err |-> <<"sftpgo delete user">>, users |-> extUsers,
          sent |-> t.sent \o <<"delete_user">>]

\* What GET /api/v2/users/{username} may report as the status of a user
\* (1 = enabled).
UserStatuses == {0, 1}

\* A GetUser that sends DELETE where it should send GET.
GetUserByDelete(t, srvOk, username, status) ==
    IF t.err # << >> THEN [err |-> t.err, users |-> extUsers, status |-> 0, sent |-> t.sent]
    ELSE IF ~Served(t, srvOk)
    THEN [err |-> <<"sftpgo get user">>, users |-> extUsers, status |-> 0,
          sent |-> t.sent \o <<"get_user">>]
    ELSE IF username \notin ExtNames
    THEN [err |-> <<"user not found in sftpgo">>, users |-> extUsers, status |-> 0,
          sent |-> t.sent \o <<"get_user">>]
    ELSE [err |-> << >>, users |-> {x \in extUsers : x.username # username},
          status |-> status, sent |-> t.sent \o <<"get_user">>]

\* SFTPGoClient.GetUser: GET /api/v2/users/{username} answers 404 for an unknown
\* user, 200 with the user and its status for a known one; the server's users
\* stay as they are.
GetUser(t, srvOk, username, status) ==
    IF t.err # << >> THEN [err |-> t.err, users |-> extUsers, status |-> 0, sent |-> t.sent]
    ELSE IF ~Served(t, srvOk)
    THEN [err |-> <<"sftpgo get user">>, users |-> extUsers, status |-> 0,
          sent |-> t.sent \o <<"get_user">>]
    ELSE IF username \notin ExtNames
    THEN [err |-> <<"user not found in sftpgo">>, users |-> extUsers, status |-> 0,
          sent |-> t.sent \o <<"get_user">>]
    ELSE [err |-> << >>, users |-> extUsers, status |-> status,
          sent |-> t.sent \o <<"get_user">>]

(* ------------------------ the middleware (auth.go) -------------------- *)

\* An Authorization header: the text before the first space and the text after it.
NoHeader == [scheme |-> "", cred |-> ""]
Headers ==
    {NoHeader} \cup [scheme : {"Bearer", "Basic"}, cred : APIKeyValues \cup {"bad"}]

\* A middleware that takes any bearer header.
AuthMiddlewareAnyBearer(hdr) == hdr.scheme = "Bearer"

\* AuthMiddleware calls next: the header starts with "Bearer " and the rest of it
\* passes ValidateAPIKey.
AuthMiddleware(hdr) == hdr.scheme = "Bearer" /\ ValidateAPIKey(hdr.cred)

\* The answer of AuthMiddleware when it does not call next.
Unauthorized(hdr) ==
    IF hdr.scheme # "Bearer" THEN <<"missing api key">> ELSE <<"invalid api key">>

(* ---------------------- requests and their answers -------------------- *)

NoBody == [kind |-> "none"]
\* A writeError that sends a fixed text in place of err.Error().
ErrorBodyOpaque(chain) == [kind |-> "error", error |-> <<"request failed">>]
\* writeError / http.Error with a JSON error text: the error chain, outermost first.
ErrorBody(chain) == [kind |-> "error", error |-> chain]
\* writeJSON
JSONBody(v) == [kind |-> "json", value |-> v]
\* http.Error with a plain text (sent with a line end after it)
TextBody(text) == [kind |-> "text", text |-> text]

\* A goroutine that serves nothing yet.
Idle ==
    [pc |-> "idle", kind |-> "none", method |-> "", auth |-> NoHeader, retry |-> FALSE,
     username |-> "", password |-> "", public_key |-> EmptyKey, id |-> 0,
     tenant_id |-> "", status |-> 0, body |-> NoBody, hist |-> << >>]

\* A goroutine takes a new request when it serves none.
Free(p) == procs[p].pc = "idle"

\* The caller that was answered 502 sends the same request once more.
Retried(p, kind, id, publicKey) ==
    /\ procs[p].pc = "done"
    /\ procs[p].status = StatusBadGateway
    /\ procs[p].kind = kind
    /\ procs[p].id = id
    /\ procs[p].public_key = publicKey

\* The request a goroutine starts on.
Request(p, kind, hdr, username, password, publicKey, id, tenantID) ==
    [Idle EXCEPT !.kind = kind, !.auth = hdr, !.username = username,
                 !.password = password, !.public_key = publicKey, !.id = id,
                 !.tenant_id = tenantID, !.retry = Retried(p, kind, id, publicKey)]

\* The handler answers and returns.
Answer(r, status, body, events) ==
    [r EXCEPT !.pc = "done", !.status = status, !.body = body, !.hist = @ \o events]

\* The handler moves on to its next registry statement or external call.
Goto(r, pc, events) == [r EXCEPT !.pc = pc, !.hist = @ \o events]

(* --------------------- the handlers (handlers.go) --------------------- *)

\* Handlers.CreateAPIKey (not behind the middleware): DB.CreateAPIKey inserts a
\* fresh random key; the INSERT fails on a storage error or on the UNIQUE key.
CreateAPIKey(p, key, dbOk) ==
    /\ Free(p)
    /\ LET req == Request(p, "create_key", NoHeader, "", "", EmptyKey, 0, "") IN
       IF dbOk /\ key \notin apiKeys
       THEN /\ apiKeys' = apiKeys \cup {key}
            /\ procs' = [procs EXCEPT ![p] =
                    Answer(req, StatusCreated, JSONBody([key |-> key]), <<"db_insert_ok">>)]
       ELSE /\ apiKeys' = apiKeys
            /\ procs' = [procs EXCEPT ![p] =
                    Answer(req, StatusInternalServerError, ErrorBody(<<"insert api key">>),
                           <<"db_insert_err">>)]
    /\ UNCHANGED <<mainPc, tenants, extUsers, clientVars, now, mu, ingestVars>>

\* The middleware turns the request away: 401, and next is not called.
Rejected(p, kind, hdr) ==
    /\ Free(p)
    /\ ~AuthMiddleware(hdr)
    /\ procs' = [procs EXCEPT ![p] =
            Answer(Request(p, kind, hdr, "", "", EmptyKey, 0, ""), StatusUnauthorized,
                   ErrorBody(Unauthorized(hdr)), << >>)]
    /\ UNCHANGED <<mainPc, apiKeys, tenants, extUsers, clientVars, now, mu, ingestVars>>

\* The table has room for one more row id below the model's bound.
RoomForRow ==
    NextRowId + Cardinality({q \in Procs : procs[q].pc = "create_db"}) <= MaxId

\* CreateTenant going on to the registry whatever CreateUser returned.
CreateTenantUserUnchecked(p, hdr, decodeOk, username, supplied, gen, publicKey, tenantID, r, srvOk) ==
    /\ Free(p)
    /\ AuthMiddleware(hdr)
    /\ RoomForRow
    /\ LET password == IF supplied = "" THEN gen ELSE supplied
           req == Request(p, "create", hdr, username, password, publicKey, 0, tenantID)
           pubKeys == IF publicKey # EmptyKey THEN <<publicKey>> ELSE << >>
           t == getToken(r)
           c == CreateUser(t, srvOk, username, password, pubKeys, tenantID)
       IN
       IF ~decodeOk \/ username = ""
       THEN /\ procs' = [procs EXCEPT ![p] =
                    Answer(req, StatusBadRequest, ErrorBody(<<"username is required">>), << >>)]
            /\ UNCHANGED <<extUsers, clientVars>>
       ELSE /\ CacheAfter(t)
            /\ extUsers' = c.users
            /\ procs' = [procs EXCEPT ![p] =
                    Goto(req, "create_db",
                         c.sent \o <<IF c.err # << >> THEN "ext_err" ELSE "ext_ok">>)]
    /\ UNCHANGED <<mainPc, apiKeys, tenants, now, mu, ingestVars>>

\* Handlers.CreateTenant up to and including h.sftpgo.CreateUser: the body is
\* decoded, a missing password and the tenant token are drawn from rand.Read, and
\* the external user is created; only then does the handler go on to the registry.
CreateTenantUser(p, hdr, decodeOk, username, supplied, gen, publicKey, tenantID, r, srvOk) ==
    /\ Free(p)
    /\ AuthMiddleware(hdr)
    /\ RoomForRow
    /\ LET password == IF supplied = "" THEN gen ELSE supplied
           req == Request(p, "create", hdr, username, password, publicKey, 0, tenantID)
           pubKeys == IF publicKey # EmptyKey THEN <<publicKey>> ELSE << >>
           t == getToken(r)
           c == CreateUser(t, srvOk, username, password, pubKeys, tenantID)
       IN
       IF ~decodeOk \/ username = ""
       THEN /\ procs' = [procs EXCEPT ![p] =
                    Answer(req, StatusBadRequest, ErrorBody(<<"username is required">>), << >>)]
            /\ UNCHANGED <<extUsers, clientVars>>
       ELSE /\ CacheAfter(t)
            /\ extUsers' = c.users
            /\ procs' = [procs EXCEPT ![p] =
                    IF c.err # << >>
                    THEN Answer(req, StatusBadGateway, ErrorBody(c.err), c.sent \o <<"ext_err">>)
                    ELSE Goto(req, "create_db", c.sent \o <<"ext_ok">>)]
    /\ UNCHANGED <<mainPc, apiKeys, tenants, now, mu, ingestVars>>

\* Handlers.CreateTenant from h.db.CreateTenant on: the INSERT fails on a storage
\* error or on a UNIQUE constraint (500), else the row is written (201).
CreateTenantRow(p, dbOk) ==
    /\ procs[p].pc = "create_db"
    /\ LET req == procs[p] IN
       IF dbOk /\ TenantInsertable(req.tenant_id, req.username)
       THEN /\ tenants' = DBCreateTenant(req.tenant_id, req.username, req.password,
                                        req.public_key)
            /\ procs' = [procs EXCEPT ![p] =
                    Answer([req EXCEPT !.id = NextRowId], StatusCreated,
                           JSONBody([password |-> req.password, tenant_id |-> req.tenant_id]),
                           <<"db_insert_ok">>)]
       ELSE /\ tenants' = tenants
            /\ procs' = [procs EXCEPT ![p] =
                    Answer(req, StatusInternalServerError, ErrorBody(<<"insert tenant">>),
                           <<"db_insert_err">>)]
    /\ UNCHANGED <<mainPc, apiKeys, extUsers, clientVars, now, mu, ingestVars>>

\* Handlers.DeleteTenant up to the SELECT of DB.DeleteTenant, which resolves the
\* username: an id that does not parse is answered 400, no row (or a storage
\* error) 404.
DeleteTenantSelect(p, hdr, idOk, id, dbOk) ==
    /\ Free(p) \/ Retried(p, "delete", id, EmptyKey)
    /\ AuthMiddleware(hdr)
    /\ LET req == Request(p, "delete", hdr, "", "", EmptyKey, id, "") IN
       procs' = [procs EXCEPT ![p] =
            IF ~idOk
            THEN Answer([req EXCEPT !.id = 0], StatusBadRequest, ErrorBody(<<"invalid id">>), << >>)
            ELSE IF ~dbOk \/ RowsById(id) = {}
            THEN Answer(req, StatusNotFound, ErrorBody(<<"tenant not found">>),
                        <<IF dbOk THEN "db_no_row" ELSE "db_err">>)
            ELSE Goto([req EXCEPT !.username = GetTenant(id).username], "delete_db",
                      <<"db_select_ok">>)]
    /\ UNCHANGED <<mainPc, apiKeys, tenants, extUsers, clientVars, now, mu, ingestVars>>

\* A DELETE that takes the records of the tenant with it.
DeleteTenantRowCascade(p, dbOk) ==
    /\ procs[p].pc = "delete_db"
    /\ LET req == procs[p] IN
       IF dbOk
       THEN /\ tenants' = DeleteRow(req.id)
            /\ records' = {r \in records :
                              \A t \in RowsById(req.id) : r.tenant_id # t.tenant_id}
            /\ procs' = [procs EXCEPT ![p] = Goto(req, "delete_ext", <<"db_delete_ok">>)]
       ELSE /\ UNCHANGED <<tenants, records>>
            /\ procs' = [procs EXCEPT ![p] =
                    Answer(req, StatusNotFound, ErrorBody(<<"tenant not found">>),
                           <<"db_delete_err">>)]
    /\ UNCHANGED <<mainPc, apiKeys, extUsers, clientVars, now, mu, workerOn, workers, uploads>>

\* The DELETE of DB.DeleteTenant: a storage error is answered 404; a DELETE that
\* matches no row is no error.
DeleteTenantRow(p, dbOk) ==
    /\ procs[p].pc = "delete_db"
    /\ LET req == procs[p] IN
       IF dbOk
       THEN /\ tenants' = DeleteRow(req.id)
            /\ procs' = [procs EXCEPT ![p] = Goto(req, "delete_ext", <<"db_delete_ok">>)]
       ELSE /\ tenants' = tenants
            /\ procs' = [procs EXCEPT ![p] =
                    Answer(req, StatusNotFound, ErrorBody(<<"tenant not found">>),
                           <<"db_delete_err">>)]
    /\ UNCHANGED <<mainPc, apiKeys, extUsers, clientVars, now, mu, ingestVars>>

\* A DeleteTenant that puts a row of the username back when the external
\* delete fails.
DeleteTenantUserRestoring(p, r, srvOk) ==
    /\ procs[p].pc = "delete_ext"
    /\ LET req == procs[p]
           t == getToken(r)
           c == DeleteUser(t, srvOk, req.username)
       IN
       /\ CacheAfter(t)
       /\ extUsers' = c.users
       /\ tenants' = IF c.err # << >> /\ RowsById(req.id) = {}
                     THEN tenants \cup {TenantRow(req.id, "t1", req.username, "", EmptyKey)}
                     ELSE tenants
       /\ procs' = [procs EXCEPT ![p] =
               IF c.err # << >>
               THEN Answer(req, StatusBadGateway,
                           ErrorBody(<<"deleted from db but sftpgo failed">> \o c.err),
                           c.sent \o <<"ext_err">>)
               ELSE Answer(req, StatusOK, JSONBody([status |-> "deleted"]),
                           c.sent \o <<"ext_ok">>)]
    /\ UNCHANGED <<mainPc, apiKeys, now, mu, ingestVars>>

\* Handlers.DeleteTenant from h.sftpgo.DeleteUser on.
DeleteTenantUser(p, r, srvOk) ==
    /\ procs[p].pc = "delete_ext"
    /\ LET req == procs[p]
           t == getToken(r)
           c == DeleteUser(t, srvOk, req.username)
       IN
       /\ CacheAfter(t)
       /\ extUsers' = c.users
       /\ procs' = [procs EXCEPT ![p] =
               IF c.err # << >>
               THEN Answer(req, StatusBadGateway,
                           ErrorBody(<<"deleted from db but sftpgo failed">> \o c.err),
                           c.sent \o <<"ext_err">>)
               ELSE Answer(req, StatusOK, JSONBody([status |-> "deleted"]),
                           c.sent \o <<"ext_ok">>)]
    /\ UNCHANGED <<mainPc, apiKeys, tenants, now, mu, ingestVars>>

\* Handlers.UpdateTenantKeys up to h.db.GetTenant.
UpdateTenantKeysGet(p, hdr, idOk, id, decodeOk, publicKey, dbOk) ==
    /\ Free(p) \/ Retried(p, "update", id, publicKey)
    /\ AuthMiddleware(hdr)
    /\ LET req == Request(p, "update", hdr, "", "", publicKey, id, "") IN
       procs' = [procs EXCEPT ![p] =
            IF ~idOk
            THEN Answer([req EXCEPT !.id = 0], StatusBadRequest, ErrorBody(<<"invalid id">>), << >>)
            ELSE IF ~decodeOk \/ publicKey = EmptyKey
            THEN Answer(req, StatusBadRequest, ErrorBody(<<"public_key is required">>), << >>)
            ELSE IF ~dbOk \/ RowsById(id) = {}
            THEN Answer(req, StatusNotFound, ErrorBody(<<"tenant not found">>),
                        <<IF dbOk THEN "db_no_row" ELSE "db_err">>)
            ELSE Goto([req EXCEPT !.username = GetTenant(id).username], "update_db",
                      <<"db_select_ok">>)]
    /\ UNCHANGED <<mainPc, apiKeys, tenants, extUsers, clientVars, now, mu, ingestVars>>

\* Handlers.UpdateTenantKeys at h.db.UpdateTenantPublicKey: a storage error is
\* answered 500; an UPDATE that matches no row is no error.
UpdateTenantKeysRow(p, dbOk) ==
    /\ procs[p].pc = "update_db"
    /\ LET req == procs[p] IN
       IF dbOk
       THEN /\ tenants' = UpdateTenantPublicKey(req.id, req.public_key)
            /\ procs' = [procs EXCEPT ![p] = Goto(req, "update_ext", <<"db_update_ok">>)]
       ELSE /\ tenants' = tenants
            /\ procs' = [procs EXCEPT ![p] =
                    Answer(req, StatusInternalServerError,
                           ErrorBody(<<"update public key for tenant">>), <<"db_update_err">>)]
    /\ UNCHANGED <<mainPc, apiKeys, extUsers, clientVars, now, mu, ingestVars>>

\* Handlers.UpdateTenantKeys from h.sftpgo.UpdateUserPublicKeys on.
UpdateTenantKeysUser(p, r, srvOk) ==
    /\ procs[p].pc = "update_ext"
    /\ LET req == procs[p]
           t == getToken(r)
           c == UpdateUserPublicKeys(t, srvOk, req.username, <<req.public_key>>)
       IN
       /\ CacheAfter(t)
       /\ extUsers' = c.users
       /\ procs' = [procs EXCEPT ![p] =
               IF c.err # << >>
               THEN Answer(req, StatusBadGateway,
                           ErrorBody(<<"db updated but sftpgo failed">> \o c.err),
                           c.sent \o <<"ext_err">>)
               ELSE Answer(req, StatusOK, JSONBody([status |-> "updated"]),
                           c.sent \o <<"ext_ok">>)]
    /\ UNCHANGED <<mainPc, apiKeys, tenants, now, mu, ingestVars>>

\* A public-key check that compares the whole key texts.
PublicKeyAuthWhole(reqKey, storedKey) ==
    /\ reqKey # EmptyKey
    /\ storedKey # EmptyKey
    /\ TrimSpace(reqKey) = TrimSpace(storedKey)

\* The public-key check of Handlers.ExternalAuthHook.
PublicKeyAuth(reqKey, storedKey) ==
    /\ reqKey # EmptyKey
    /\ storedKey # EmptyKey
    /\ LET reqParts == Fields(TrimSpace(reqKey))
           storedParts == Fields(TrimSpace(storedKey))
       IN Len(reqParts) >= 2 /\ Len(storedParts) >= 2 /\ reqParts[2] = storedParts[2]

\* A password check that admits one login at a time: it refuses while the
\* answer to another call stands.
PasswordAuthOneAtATime(reqPassword, storedPassword) ==
    /\ reqPassword # "" /\ storedPassword # "" /\ reqPassword = storedPassword
    /\ \A q \in Procs : procs[q].pc # "done"

\* A password check that forgets the empty passwords.
PasswordAuthPlain(reqPassword, storedPassword) == reqPassword = storedPassword

\* The password check of Handlers.ExternalAuthHook.
PasswordAuth(reqPassword, storedPassword) ==
    reqPassword # "" /\ storedPassword # "" /\ reqPassword = storedPassword

\* A descriptor whose key prefix is the home directory name of the username.
SFTPGoUserByName(tenant) ==
    [status |-> 1, username |-> tenant.username, password |-> tenant.password,
     public_keys |-> IF tenant.public_key # EmptyKey THEN <<tenant.public_key>> ELSE << >>,
     filesystem |->
        [provider |-> 1,
         s3config |-> [bucket |-> cfg.S3Bucket, region |-> cfg.S3Region,
                       endpoint |-> cfg.S3Endpoint, access_key |-> cfg.S3AccessKey,
                       access_secret |-> cfg.S3SecretKey,
                       key_prefix |-> <<tenant.username, "/">>]]]

\* The user descriptor Handlers.ExternalAuthHook answers with; the filesystem is
\* built from h.cfg at every call.
SFTPGoUser(tenant) ==
    [status |-> 1, username |-> tenant.username, password |-> tenant.password,
     public_keys |-> IF tenant.public_key # EmptyKey THEN <<tenant.public_key>> ELSE << >>,
     filesystem |->
        [provider |-> 1,
         s3config |-> [bucket |-> cfg.S3Bucket, region |-> cfg.S3Region,
                       endpoint |-> cfg.S3Endpoint, access_key |-> cfg.S3AccessKey,
                       access_secret |-> cfg.S3SecretKey,
                       key_prefix |-> <<tenant.tenant_id, "/">>]]]

\* An authentication hook that answers an unknown username as it answers a body
\* it cannot decode.
ExternalAuthHookLenient(p, method, decodeOk, username, password, publicKey, dbOk) ==
    /\ Free(p)
    /\ LET req == [Request(p, "auth_hook", NoHeader, username, password, publicKey, 0, "")
                      EXCEPT !.method = method]
           blank == [Request(p, "auth_hook", NoHeader, "", "", EmptyKey, 0, "")
                      EXCEPT !.method = method]
       IN
       procs' = [procs EXCEPT ![p] =
            IF method # "POST"
            THEN Answer(blank, StatusMethodNotAllowed, ErrorBody(<<"method not allowed">>), << >>)
            ELSE IF ~decodeOk
            THEN Answer(blank, StatusOK, TextBody("{\"username\":\"\"}"), <<"decode_err">>)
            ELSE IF ~dbOk \/ RowsByUsername(username) = {}
            THEN Answer(req, StatusOK, TextBody("{\"username\":\"\"}"),
                        <<IF dbOk THEN "db_no_row" ELSE "db_err">>)
            ELSE LET tenant == GetTenantByUsername(username) IN
                 IF PublicKeyAuth(publicKey, tenant.public_key)
                 THEN Answer(req, StatusOK, JSONBody(SFTPGoUser(tenant)),
                             <<"db_select_ok", "public_key">>)
                 ELSE IF PasswordAuth(password, tenant.password)
                 THEN Answer(req, StatusOK, JSONBody(SFTPGoUser(tenant)),
                             <<"db_select_ok", "password">>)
                 ELSE Answer(req, StatusForbidden, TextBody(""), <<"db_select_ok">>)]
    /\ UNCHANGED <<mainPc, apiKeys, tenants, extUsers, clientVars, now, mu, ingestVars>>

\* Handlers.ExternalAuthHook (not behind the middleware): one registry read.
ExternalAuthHook(p, method, decodeOk, username, password, publicKey, dbOk) ==
    /\ Free(p)
    /\ LET req == [Request(p, "auth_hook", NoHeader, username, password, publicKey, 0, "")
                      EXCEPT !.method = method]
           blank == [Request(p, "auth_hook", NoHeader, "", "", EmptyKey, 0, "")
                      EXCEPT !.method = method]
       IN
       procs' = [procs EXCEPT ![p] =
            IF method # "POST"
            THEN Answer(blank, StatusMethodNotAllowed, ErrorBody(<<"method not allowed">>), << >>)
            ELSE IF ~decodeOk
            THEN Answer(blank, StatusOK, TextBody("{\"username\":\"\"}"), <<"decode_err">>)
            ELSE IF ~dbOk \/ RowsByUsername(username) = {}
            THEN Answer(req, StatusForbidden, TextBody(""),
                        <<IF dbOk THEN "db_no_row" ELSE "db_err">>)
            ELSE LET tenant == GetTenantByUsername(username) IN
                 IF PublicKeyAuth(publicKey, tenant.public_key)
                 THEN Answer(req, StatusOK, JSONBody(SFTPGoUser(tenant)),
                             <<"db_select_ok", "public_key">>)
                 ELSE IF PasswordAuth(password, tenant.password)
                 THEN Answer(req, StatusOK, JSONBody(SFTPGoUser(tenant)),
                             <<"db_select_ok", "password">>)
                 ELSE Answer(req, StatusForbidden, TextBody(""), <<"db_select_ok">>)]
    /\ UNCHANGED <<mainPc, apiKeys, tenants, extUsers, clientVars, now, mu, ingestVars>>

\* A row DB.CreateTenant wrote on a direct call, as the package's tests make it:
\* the table takes any password and any public key text, the empty ones too.
SeedTenant(p, tenantID, username, password, publicKey) ==
    /\ Free(p)
    /\ RoomForRow
    /\ TenantInsertable(tenantID, username)
    /\ tenants' = DBCreateTenant(tenantID, username, password, publicKey)
    /\ UNCHANGED <<mainPc, apiKeys, extUsers, clientVars, now, procs, mu, ingestVars>>

\* A call of SFTPGoClient.getToken on its own, as the client's tests make it.
GetTokenCall(p, r) ==
    /\ Free(p)
    /\ LET req == Request(p, "get_token", NoHeader, "", "", EmptyKey, 0, "")
           t == getToken(r)
       IN
       /\ CacheAfter(t)
       /\ procs' = [procs EXCEPT ![p] =
               IF t.err # << >>
               THEN Answer(req, 0, ErrorBody(t.err), t.sent)
               ELSE Answer(req, 0, JSONBody([token |-> t.value]), t.sent)]
    /\ UNCHANGED <<mainPc, apiKeys, tenants, extUsers, now, mu, ingestVars>>

\* A mutex that never blocks.
LockFreeAlways == TRUE

\* c.mu.Lock() returns: no goroutine holds the client's lock.
LockFree == mu = ""

\* getToken from the cache test on, by the goroutine that has just locked c.mu:
\* a cached token is returned (the deferred Unlock runs within the step);
\* otherwise the token request is sent and the lock stays held while it is
\* in flight.
GetTokenLocked(p, req) ==
    LET t == getToken(TokenFailure) IN
    IF t.sent = << >>
    THEN /\ procs' = [procs EXCEPT ![p] = Answer(req, 0, JSONBody([token |-> t.value]), << >>)]
         /\ mu' = ""
    ELSE /\ procs' = [procs EXCEPT ![p] = Goto(req, "tok_flight", <<"token_request">>)]
         /\ mu' = p

\* A goroutine calls getToken: it takes the lock, or blocks in c.mu.Lock().
GetTokenEnter(p) ==
    /\ Free(p)
    /\ LET req == Request(p, "get_token", NoHeader, "", "", EmptyKey, 0, "") IN
       IF LockFree
       THEN GetTokenLocked(p, req)
       ELSE /\ procs' = [procs EXCEPT ![p] = Goto(req, "tok_wait", <<"blocked">>)]
            /\ mu' = mu
    /\ UNCHANGED <<mainPc, apiKeys, tenants, extUsers, clientVars, now, ingestVars>>

\* A goroutine blocked in c.mu.Lock() gets the lock.
GetTokenWake(p) ==
    /\ procs[p].pc = "tok_wait"
    /\ LockFree
    /\ GetTokenLocked(p, procs[p])
    /\ UNCHANGED <<mainPc, apiKeys, tenants, extUsers, clientVars, now, ingestVars>>

\* A getToken that unlocks on its successful return only.
GetTokenReplyHolding(p, r) ==
    /\ procs[p].pc = "tok_flight"
    /\ LET t == getToken(r) IN
       /\ CacheAfter(t)
       /\ procs' = [procs EXCEPT ![p] =
               IF t.err # << >>
               THEN Answer(procs[p], 0, ErrorBody(t.err), << >>)
               ELSE Answer(procs[p], 0, JSONBody([token |-> t.value]), << >>)]
       /\ mu' = IF t.err # << >> THEN mu ELSE ""
    /\ UNCHANGED <<mainPc, apiKeys, tenants, extUsers, now, ingestVars>>

\* The token request returns: getToken fills the cache or returns the error,
\* and the deferred Unlock releases the lock.
GetTokenReply(p, r) ==
    /\ procs[p].pc = "tok_flight"
    /\ LET t == getToken(r) IN
       /\ CacheAfter(t)
       /\ procs' = [procs EXCEPT ![p] =
               IF t.err # << >>
               THEN Answer(procs[p], 0, ErrorBody(t.err), << >>)
               ELSE Answer(procs[p], 0, JSONBody([token |-> t.value]), << >>)]
    /\ mu' = ""
    /\ UNCHANGED <<mainPc, apiKeys, tenants, extUsers, now, ingestVars>>

\* The answer has been sent and the goroutine ends.
Return(p) ==
    /\ procs[p].pc = "done"
    /\ procs' = [procs EXCEPT ![p] = Idle]
    /\ UNCHANGED <<mainPc, apiKeys, tenants, extUsers, clientVars, now, mu, ingestVars>>

\* Time passes.
Tick ==
    /\ now < MaxTime
    /\ now' = now + 1
    /\ UNCHANGED <<mainPc, apiKeys, tenants, extUsers, clientVars, procs, mu, ingestVars>>

(* ---------------------------- main (main.go) -------------------------- *)

\* The server takes new connections: ListenAndServe has not returned.
Accepting == mainPc = "serving"
\* The storage handle is open: the deferred db.Close() has not run.
HandleOpen == mainPc \in {"serving", "shutdown"}
\* The process runs: main has not returned.
Running == mainPc # "exited"

\* SIGINT or SIGTERM arrives: the signal goroutine calls srv.Shutdown, which
\* closes the listeners and then waits, in that goroutine, for the connections
\* to become idle; ListenAndServe returns http.ErrServerClosed at once.
Signal ==
    /\ mainPc = "serving"
    /\ mainPc' = "shutdown"
    /\ UNCHANGED <<apiKeys, tenants, extUsers, clientVars, now, procs, mu, ingestVars>>

\* main falls out of the ListenAndServe test and its deferred db.Close() runs.
CloseDB ==
    /\ mainPc = "shutdown"
    /\ mainPc' = "closed"
    /\ UNCHANGED <<apiKeys, tenants, extUsers, clientVars, now, procs, mu, ingestVars>>

\* main returns and the process ends with whatever its goroutines were doing.
Exit ==
    /\ mainPc = "closed"
    /\ mainPc' = "exited"
    /\ UNCHANGED <<apiKeys, tenants, extUsers, clientVars, now, procs, mu, ingestVars>>

(* --------------------------- specifications --------------------------- *)

(* ------------------------ CSV ingestion (worker.go) ------------------- *)

UpperCase ==
    <<"A", "B", "C", "D", "E", "F", "G", "H", "I", "J", "K", "L", "M",
      "N", "O", "P", "Q", "R", "S", "T", "U", "V", "W", "X", "Y", "Z">>
LowerCase ==
    <<"a", "b", "c", "d", "e", "f", "g", "h", "i", "j", "k", "l", "m",
      "n", "o", "p", "q", "r", "s", "t", "u", "v", "w", "x", "y", "z">>
\* strings.ToLower on one character, and on a text.
Lower(c) ==
    IF \E i \in 1 .. 26 : UpperCase[i] = c
    THEN LowerCase[CHOOSE i \in 1 .. 26 : UpperCase[i] = c]
    ELSE c
ToLower(s) == [i \in 1 .. Len(s) |-> Lower(s[i])]
\* strings.HasSuffix, strings.TrimPrefix.
HasSuffix(s, suffix) ==
    /\ Len(s) >= Len(suffix)
    /\ SubSeq(s, Len(s) - Len(suffix) + 1, Len(s)) = suffix
TrimPrefix(s, prefix) ==
    IF Len(s) >= Len(prefix) /\ SubSeq(s, 1, Len(prefix)) = prefix
    THEN SubSeq(s, Len(prefix) + 1, Len(s))
    ELSE s

\* strconv.ParseFloat on the texts of the value column, which here are made of
\* decimal digits, letters and spaces: a non-empty text of digits is its
\* number, any other text is a syntax error.
Digits == <<"0", "1", "2", "3", "4", "5", "6", "7", "8", "9">>
IsDigit(c) == \E i \in 1 .. 10 : Digits[i] = c
DigitValue(c) == (CHOOSE i \in 1 .. 10 : Digits[i] = c) - 1
RECURSIVE Decimal(_)
Decimal(s) ==
    IF s = << >> THEN 0
    ELSE 10 * Decimal(SubSeq(s, 1, Len(s) - 1)) + DigitValue(s[Len(s)])
ParseFloat(s) ==
    IF s # << >> /\ \A i \in 1 .. Len(s) : IsDigit(s[i])
    THEN [ok |-> TRUE, value |-> Decimal(s)]
    ELSE [ok |-> FALSE, value |-> 0]

\* The column names ProcessUploadEvent looks for.
ColKey == <<"k", "e", "y">>
ColTitle == <<"t", "i", "t", "l", "e">>
ColDescription == <<"d", "e", "s", "c", "r", "i", "p", "t", "i", "o", "n">>
ColCategory == <<"c", "a", "t", "e", "g", "o", "r", "y">>
ColValue == <<"v", "a", "l", "u", "e">>
RequiredColumns == <<ColKey, ColTitle, ColValue>>

\* colIndex: the position of the last header cell that, lower-cased and
\* trimmed, is the name; 0 when there is none.
HasColumn(header, name) ==
    \E i \in 1 .. Len(header) : TrimSpace(ToLower(header[i])) = name
ColIndex(header, name) ==
    IF HasColumn(header, name)
    THEN Max({i \in 1 .. Len(header) : TrimSpace(ToLower(header[i])) = name})
    ELSE 0

\* A header check that forgets the title column.
HeaderOkNoTitle(header) == HasColumn(header, ColKey) /\ HasColumn(header, ColValue)

\* The header has every required column.
HeaderOk(header) ==
    \A i \in 1 .. Len(RequiredColumns) : HasColumn(header, RequiredColumns[i])

\* The map colIndex the worker builds once from the header.
ColumnMap(header) ==
    [key |-> ColIndex(header, ColKey), title |-> ColIndex(header, ColTitle),
     description |-> ColIndex(header, ColDescription),
     category |-> ColIndex(header, ColCategory), value |-> ColIndex(header, ColValue)]
NoColumns == [key |-> 0, title |-> 0, description |-> 0, category |-> 0, value |-> 0]

\* row[colIndex[name]]: a name the map does not hold reads as index 0 of the
\* row, its first cell.
Cell(row, index) == row[IF index = 0 THEN 1 ELSE index]
\* The description and category of a row: empty when the column is absent.
OptionalCell(row, index) == IF index = 0 THEN << >> ELSE TrimSpace(row[index])

\* csv.Reader with FieldsPerRecord 0: a record is returned without error when
\* it has as many fields as the first one.
ReadOk(header, row) == Len(row) = Len(header)

\* An upsert changing the title and the value only.
UpsertRecordPartly(tenantID, recordKey, title, description, category, value) ==
    IF \E r \in records : r.tenant_id = tenantID /\ r.record_key = recordKey
    THEN {IF r.tenant_id = tenantID /\ r.record_key = recordKey
          THEN [r EXCEPT !.title = title, !.value = value, !.updated_at = now]
          ELSE r : r \in records}
    ELSE records \cup
         {[id |-> IF records = {} THEN 1 ELSE Max({r.id : r \in records}) + 1,
           tenant_id |-> tenantID, record_key |-> recordKey, title |-> title,
           description |-> description, category |-> category, value |-> value,
           updated_at |-> now]}

\* An upsert that leaves an existing record as it is.
UpsertRecordIgnore(tenantID, recordKey, title, description, category, value) ==
    IF \E r \in records : r.tenant_id = tenantID /\ r.record_key = recordKey
    THEN records
    ELSE records \cup
         {[id |-> IF records = {} THEN 1 ELSE Max({r.id : r \in records}) + 1,
           tenant_id |-> tenantID, record_key |-> recordKey, title |-> title,
           description |-> description, category |-> category, value |-> value,
           updated_at |-> now]}

\* An insert without the conflict clause and without the unique index.
UpsertRecordInsert(tenantID, recordKey, title, description, category, value) ==
    records \cup
         {[id |-> IF records = {} THEN 1 ELSE Max({r.id : r \in records}) + 1,
           tenant_id |-> tenantID, record_key |-> recordKey, title |-> title,
           description |-> description, category |-> category, value |-> value,
           updated_at |-> now]}

\* DB.UpsertRecord: INSERT ... ON CONFLICT(tenant_id, record_key) DO UPDATE,
\* one statement; a new row takes the next rowid.
UpsertRecord(tenantID, recordKey, title, description, category, value) ==
    IF \E r \in records : r.tenant_id = tenantID /\ r.record_key = recordKey
    THEN {IF r.tenant_id = tenantID /\ r.record_key = recordKey
          THEN [r EXCEPT !.title = title, !.description = description,
                         !.category = category, !.value = value, !.updated_at = now]
          ELSE r : r \in records}
    ELSE records \cup
         {[id |-> IF records = {} THEN 1 ELSE Max({r.id : r \in records}) + 1,
           tenant_id |-> tenantID, record_key |-> recordKey, title |-> title,
           description |-> description, category |-> category, value |-> value,
           updated_at |-> now]}

\* A listing that forgets the WHERE clause.
ListRecordsAll(tenantID) ==
    LET ById[S \in SUBSET records] ==
            IF S = {} THEN << >>
            ELSE LET r == CHOOSE x \in S : \A y \in S : x.id <= y.id
                 IN <<r>> \o ById[S \ {r}]
    IN ById[records]

\* DB.ListRecords: SELECT ... WHERE tenant_id = ? ORDER BY id.
ListRecords(tenantID) ==
    LET ById[S \in SUBSET records] ==
            IF S = {} THEN << >>
            ELSE LET r == CHOOSE x \in S : \A y \in S : x.id <= y.id
                 IN <<r>> \o ById[S \ {r}]
    IN ById[{r \in records : r.tenant_id = tenantID}]

\* No ingestion runs on the goroutine.
Asleep ==
    [pc |-> "idle", username |-> "", virtual_path |-> << >>, tenant_id |-> "",
     object_key |-> << >>, header |-> << >>, colIndex |-> NoColumns, rows |-> << >>,
     pos |-> 0, count |-> 0,
     log |-> << >>, before |-> {}]

\* A worker without the test of the extension.
IsCSVAny(path) == TRUE

\* strings.HasSuffix(strings.ToLower(virtualPath), ".csv")
IsCSV(path) == HasSuffix(ToLower(path), <<".", "c", "s", "v">>)

\* tenant.TenantID + "/" + strings.TrimPrefix(virtualPath, "/")
ObjectKey(tenantID, path) == <<tenantID, "/">> \o TrimPrefix(path, <<"/">>)

\* An upload hook that writes its answer when the ingestion has returned.
UploadEventHookInline(p, w, method, decodeOk, username, path) ==
    /\ Free(p)
    /\ uploads < MaxUploads
    /\ uploads' = uploads + 1
    /\ LET req == [Request(p, "upload_event", NoHeader, username, "", EmptyKey, 0, "")
                      EXCEPT !.method = method]
       IN
       IF method # "POST"
       THEN /\ procs' = [procs EXCEPT ![p] =
                    Answer(req, StatusMethodNotAllowed, ErrorBody(<<"method not allowed">>), << >>)]
            /\ workers' = workers
       ELSE IF ~decodeOk
       THEN /\ procs' = [procs EXCEPT ![p] =
                    Answer(req, StatusBadRequest, ErrorBody(<<"invalid json">>),
                           <<"decode_err">>)]
            /\ workers' = workers
       ELSE IF ~workerOn
       THEN /\ procs' = [procs EXCEPT ![p] =
                    Answer(req, StatusOK, JSONBody([status |-> "ok"]), << >>)]
            /\ workers' = workers
       ELSE /\ workers[w].pc = "idle"
            /\ workers' = [workers EXCEPT ![w] =
                    [Asleep EXCEPT !.pc = "start", !.username = username,
                                   !.virtual_path = path]]
            /\ procs' = [procs EXCEPT ![p] = Goto(req, "upload_wait", <<"call">>)]
    /\ UNCHANGED <<mainPc, apiKeys, tenants, extUsers, clientVars, now, mu, workerOn, records>>

\* Handlers.UploadEventHook: the event is handed to a new goroutine when there
\* is a worker, and the answer is written without waiting for it.
UploadEventHook(p, w, method, decodeOk, username, path) ==
    /\ Free(p)
    /\ uploads < MaxUploads
    /\ uploads' = uploads + 1
    /\ LET req == [Request(p, "upload_event", NoHeader, username, "", EmptyKey, 0, "")
                      EXCEPT !.method = method]
       IN
       IF method # "POST"
       THEN /\ procs' = [procs EXCEPT ![p] =
                    Answer(req, StatusMethodNotAllowed, ErrorBody(<<"method not allowed">>), << >>)]
            /\ workers' = workers
       ELSE IF ~decodeOk
       THEN /\ procs' = [procs EXCEPT ![p] =
                    Answer(req, StatusBadRequest, ErrorBody(<<"invalid json">>),
                           <<"decode_err">>)]
            /\ workers' = workers
       ELSE IF ~workerOn
       THEN /\ procs' = [procs EXCEPT ![p] =
                    Answer(req, StatusOK, JSONBody([status |-> "ok"]), << >>)]
            /\ workers' = workers
       ELSE /\ workers[w].pc = "idle"
            /\ workers' = [workers EXCEPT ![w] =
                    [Asleep EXCEPT !.pc = "start", !.username = username,
                                   !.virtual_path = path]]
            /\ procs' = [procs EXCEPT ![p] =
                    Answer(req, StatusOK, JSONBody([status |-> "ok"]), <<"go">>)]
    /\ UNCHANGED <<mainPc, apiKeys, tenants, extUsers, clientVars, now, mu, workerOn, records>>

\* The ingestion ends with a last line in the log.
Abandon(j, events) == [j EXCEPT !.pc = "done", !.log = @ \o events]

\* ProcessUploadEvent up to db.GetTenantByUsername: the tests on the event and
\* one registry read.
WorkerLookup(w, dbOk) ==
    /\ workers[w].pc = "start"
    /\ LET j == workers[w] IN
       workers' = [workers EXCEPT ![w] =
            IF j.username = "" \/ j.virtual_path = << >>
            THEN Abandon(j, <<"missing username or virtual_path">>)
            ELSE IF ~IsCSV(j.virtual_path)
            THEN Abandon(j, <<"skipping non-CSV file">>)
            ELSE IF ~dbOk \/ RowsByUsername(j.username) = {}
            THEN Abandon(j, <<"tenant not found">>)
            ELSE [j EXCEPT !.pc = "fetch",
                           !.tenant_id = GetTenantByUsername(j.username).tenant_id,
                           !.object_key = ObjectKey(GetTenantByUsername(j.username).tenant_id,
                                                    j.virtual_path)]]
    /\ UNCHANGED <<mainPc, apiKeys, tenants, extUsers, clientVars, now, procs, mu, workerOn,
                   records, uploads>>

\* ProcessUploadEvent from minio.GetObject to the test of the header: the object
\* is asked for, its first record is read (no header: the object is missing or
\* empty) and the required columns are looked up.
WorkerFetch(w, readOk, header) ==
    /\ workers[w].pc = "fetch"
    /\ LET j == workers[w] IN
       workers' = [workers EXCEPT ![w] =
            IF ~readOk
            THEN Abandon(j, <<"get_object", "failed to read CSV header">>)
            ELSE IF ~HeaderOk(header)
            THEN Abandon([j EXCEPT !.header = header],
                         <<"get_object", "CSV missing required column">>)
            ELSE [j EXCEPT !.pc = "rows", !.header = header,
                           !.colIndex = ColumnMap(header), !.before = records,
                           !.log = @ \o <<"get_object">>]]
    /\ UNCHANGED <<mainPc, apiKeys, tenants, extUsers, clientVars, now, procs, mu, workerOn,
                   records, uploads>>

\* What becomes of one data row: the reader rejects it, its value does not
\* parse, its upsert fails, or it is written.
RowOutcome(header, colIndex, row, dbOk) ==
    IF ~ReadOk(header, row) THEN "CSV read error"
    ELSE IF ~ParseFloat(TrimSpace(Cell(row, colIndex.value))).ok THEN "invalid value in row"
    ELSE IF ~dbOk THEN "upsert record error"
    ELSE "ok"

\* A loop that goes on after a written row only.
ContinuesAfterWrite(outcome) == outcome = "ok"

\* The loop goes on to the next row (continue, or the end of the body) unless
\* the reader returned an error (return).
Continues(outcome) == outcome # "CSV read error"

\* A loop that resolves the tenant again at every row and writes nothing once
\* the tenant is gone.
WorkerRowResolving(w, eof, row, dbOk) ==
    /\ workers[w].pc = "rows"
    /\ LET j == workers[w]
           outcome == IF RowsByUsername(j.username) = {} THEN "tenant not found"
                      ELSE RowOutcome(j.header, j.colIndex, row, dbOk)
       IN
       IF eof
       THEN /\ workers' = [workers EXCEPT ![w] = Abandon(j, <<"processed">>)]
            /\ records' = records
       ELSE /\ Len(j.rows) < MaxRows
            /\ workers' = [workers EXCEPT ![w] =
                    [j EXCEPT !.pc = IF Continues(outcome) THEN "rows" ELSE "done",
                              !.rows = Append(@, row),
                              !.pos = @ + 1,
                              !.count = IF outcome = "ok" THEN @ + 1 ELSE @,
                              !.log = Append(@, outcome)]]
            /\ records' =
                    IF outcome = "ok"
                    THEN UpsertRecord(j.tenant_id,
                                      TrimSpace(Cell(row, j.colIndex.key)),
                                      TrimSpace(Cell(row, j.colIndex.title)),
                                      OptionalCell(row, j.colIndex.description),
                                      OptionalCell(row, j.colIndex.category),
                                      ParseFloat(TrimSpace(Cell(row, j.colIndex.value))).value)
                    ELSE records
    /\ UNCHANGED <<mainPc, apiKeys, tenants, extUsers, clientVars, now, procs, mu, workerOn, uploads>>

\* One turn of the loop of ProcessUploadEvent: at the end of the stream the
\* count is logged; otherwise one row is read and, when it parses, upserted.
WorkerRow(w, eof, row, dbOk) ==
    /\ workers[w].pc = "rows"
    /\ LET j == workers[w]
           outcome == RowOutcome(j.header, j.colIndex, row, dbOk)
       IN
       IF eof
       THEN /\ workers' = [workers EXCEPT ![w] = Abandon(j, <<"processed">>)]
            /\ records' = records
       ELSE /\ Len(j.rows) < MaxRows
            /\ workers' = [workers EXCEPT ![w] =
                    [j EXCEPT !.pc = IF Continues(outcome) THEN "rows" ELSE "done",
                              !.rows = Append(@, row),
                              !.pos = @ + 1,
                              !.count = IF outcome = "ok" THEN @ + 1 ELSE @,
                              !.log = Append(@, outcome)]]
            /\ records' =
                    IF outcome = "ok"
                    THEN UpsertRecord(j.tenant_id,
                                      TrimSpace(Cell(row, j.colIndex.key)),
                                      TrimSpace(Cell(row, j.colIndex.title)),
                                      OptionalCell(row, j.colIndex.description),
                                      OptionalCell(row, j.colIndex.category),
                                      ParseFloat(TrimSpace(Cell(row, j.colIndex.value))).value)
                    ELSE records
    /\ UNCHANGED <<mainPc, apiKeys, tenants, extUsers, clientVars, now, procs, mu, workerOn, uploads>>

\* The goroutine of an ingestion ends.
WorkerReturn(w) ==
    /\ workers[w].pc = "done"
    /\ workers' = [workers EXCEPT ![w] = Asleep]
    /\ UNCHANGED <<mainPc, apiKeys, tenants, extUsers, clientVars, now, procs, mu, workerOn,
                   records, uploads>>

\* Handlers.ListTenantRecords behind the middleware: GetTenant and ListRecords.
ListTenantRecords(p, hdr, idOk, id, dbOk, listOk) ==
    /\ Free(p)
    /\ AuthMiddleware(hdr)
    /\ LET req == Request(p, "list_records", hdr, "", "", EmptyKey, id, "") IN
       procs' = [procs EXCEPT ![p] =
            IF ~idOk
            THEN Answer([req EXCEPT !.id = 0], StatusBadRequest, ErrorBody(<<"invalid id">>), << >>)
            ELSE IF ~dbOk \/ RowsById(id) = {}
            THEN Answer(req, StatusNotFound, ErrorBody(<<"tenant not found">>),
                        <<IF dbOk THEN "db_no_row" ELSE "db_err">>)
            ELSE IF ~listOk
            THEN Answer([req EXCEPT !.tenant_id = GetTenant(id).tenant_id],
                        StatusInternalServerError, ErrorBody(<<"list records">>),
                        <<"db_select_ok", "db_list_err">>)
            ELSE Answer([req EXCEPT !.tenant_id = GetTenant(id).tenant_id],
                        StatusOK, JSONBody(ListRecords(GetTenant(id).tenant_id)),
                        <<"db_select_ok", "db_list_ok">>)]
    /\ UNCHANGED <<mainPc, apiKeys, tenants, extUsers, clientVars, now, mu, ingestVars>>

\* Handlers.GetTenant: an id that does not parse is answered 400, a failed
\* h.db.GetTenant (no row, or a storage error) 404, else the row.
HandleGetTenant(p, hdr, idOk, id, dbOk) ==
    /\ Free(p)
    /\ AuthMiddleware(hdr)
    /\ LET req == Request(p, "get", hdr, "", "", EmptyKey, id, "") IN
       procs' = [procs EXCEPT ![p] =
            IF ~idOk
            THEN Answer([req EXCEPT !.id = 0], StatusBadRequest, ErrorBody(<<"invalid id">>), << >>)
            ELSE IF ~dbOk \/ RowsById(id) = {}
            THEN Answer(req, StatusNotFound, ErrorBody(<<"tenant not found">>),
                        <<IF dbOk THEN "db_no_row" ELSE "db_err">>)
            ELSE Answer(req, StatusOK, JSONBody(GetTenant(id)), <<"db_select_ok">>)]
    /\ UNCHANGED <<mainPc, apiKeys, tenants, extUsers, clientVars, now, mu, ingestVars>>

\* Handlers.ValidateTenant up to h.db.GetTenant.
ValidateTenantGet(p, hdr, idOk, id, dbOk) ==
    /\ Free(p)
    /\ AuthMiddleware(hdr)
    /\ LET req == Request(p, "validate", hdr, "", "", EmptyKey, id, "") IN
       procs' = [procs EXCEPT ![p] =
            IF ~idOk
            THEN Answer([req EXCEPT !.id = 0], StatusBadRequest, ErrorBody(<<"invalid id">>), << >>)
            ELSE IF ~dbOk \/ RowsById(id) = {}
            THEN Answer(req, StatusNotFound, ErrorBody(<<"tenant not found">>),
                        <<IF dbOk THEN "db_no_row" ELSE "db_err">>)
            ELSE Goto([req EXCEPT !.username = GetTenant(id).username], "validate_ext",
                      <<"db_select_ok">>)]
    /\ UNCHANGED <<mainPc, apiKeys, tenants, extUsers, clientVars, now, mu, ingestVars>>

\* Handlers.ValidateTenant from h.sftpgo.GetUser on: an error of the client is
\* answered 200 with valid false and the error as the reason; else valid tells
\* whether the reported status is 1.
ValidateTenantUser(p, r, srvOk, status) ==
    /\ procs[p].pc = "validate_ext"
    /\ LET req == procs[p]
           t == getToken(r)
           g == GetUser(t, srvOk, req.username, status)
       IN
       /\ CacheAfter(t)
       /\ extUsers' = g.users
       /\ procs' = [procs EXCEPT ![p] =
               IF g.err # << >>
               THEN Answer(req, StatusOK, JSONBody([valid |-> FALSE, reason |-> g.err]),
                           g.sent \o <<"ext_err">>)
               ELSE Answer(req, StatusOK,
                           JSONBody([valid |-> g.status = 1, username |-> req.username]),
                           g.sent \o <<"ext_ok">>)]
    /\ UNCHANGED <<mainPc, apiKeys, tenants, now, mu, ingestVars>>

\* NewDB on a fresh file, NewSFTPGoClient, NewWorker when the object store is
\* configured: empty tables, no token, no ingestion.
Init ==
    /\ apiKeys = {}
    /\ tenants = {}
    /\ extUsers = {}
    /\ token = ""
    /\ tokenExp = 0
    /\ reported = 0
    /\ now = 0
    /\ procs = [p \in Procs |-> Idle]
    /\ mu = ""
    /\ workerOn \in BOOLEAN
    /\ workers = [w \in Workers |-> Asleep]
    /\ records = {}
    /\ uploads = 0
    /\ mainPc = "serving"

\* What the callers of the provisioning requests send.
ProvPasswords == {""}
ProvCreateKeys == {EmptyKey, KeyA}
ProvUpdateKeys == {EmptyKey, KeyA, KeyB}
Ids == 1 .. MaxId

\* The headers that pass the middleware now.
Passing == {hdr \in Headers : AuthMiddleware(hdr)}

\* The requests a goroutine may be given, and the steps it may take.
Serve(p) ==
    \/ \E key \in APIKeyValues, dbOk \in BOOLEAN : CreateAPIKey(p, key, dbOk)
    \/ \E kind \in {"create", "delete", "update"}, hdr \in Headers : Rejected(p, kind, hdr)
    \/ \E hdr \in Passing :
            \/ CreateTenantUser(p, hdr, FALSE, "", "", "", EmptyKey, "", TokenFailure, FALSE)
            \/ \E username \in Usernames \cup {""}, supplied \in ProvPasswords,
                  gen \in GenPasswords, publicKey \in ProvCreateKeys,
                  tenantID \in TenantIDs, r \in ProvTokenResponses, srvOk \in BOOLEAN :
                    CreateTenantUser(p, hdr, TRUE, username, supplied, gen, publicKey,
                                     tenantID, r, srvOk)
    \/ \E dbOk \in BOOLEAN : CreateTenantRow(p, dbOk)
    \/ \E hdr \in Passing :
            \/ DeleteTenantSelect(p, hdr, FALSE, 0, FALSE)
            \/ \E id \in Ids, dbOk \in BOOLEAN : DeleteTenantSelect(p, hdr, TRUE, id, dbOk)
    \/ \E dbOk \in BOOLEAN : DeleteTenantRow(p, dbOk)
    \/ \E r \in ProvTokenResponses, srvOk \in BOOLEAN : DeleteTenantUser(p, r, srvOk)
    \/ \E hdr \in Passing :
            \/ UpdateTenantKeysGet(p, hdr, FALSE, 0, FALSE, EmptyKey, FALSE)
            \/ \E id \in Ids : UpdateTenantKeysGet(p, hdr, TRUE, id, FALSE, EmptyKey, FALSE)
            \/ \E id \in Ids, publicKey \in ProvUpdateKeys, dbOk \in BOOLEAN :
                    UpdateTenantKeysGet(p, hdr, TRUE, id, TRUE, publicKey, dbOk)
    \/ \E dbOk \in BOOLEAN : UpdateTenantKeysRow(p, dbOk)
    \/ \E r \in ProvTokenResponses, srvOk \in BOOLEAN : UpdateTenantKeysUser(p, r, srvOk)
    \/ Return(p)

\* Requests are served one after the other.
Next == Serve("g1")

Spec == Init /\ [][Next]_vars

\* The public keys of the rows the authentication hook is tried on: no key, one
\* field, white space only, two fields, a comment, white space around the fields.
StoredKeys ==
    {EmptyKey, KeyA, KeyB, KeyC, <<"a">>, <<" ">>, <<" ", "a", " ", " ", "b">>}
StoredPasswords == {"", "pw1"}
\* The public keys the external server may send.
RequestKeys == StringsUpTo(MaxKeyLen)

\* The authentication hook over a registry of one tenant.
NextHook ==
    \/ \E password \in StoredPasswords, publicKey \in StoredKeys :
            SeedTenant("g1", "t1", "alice", password, publicKey)
    \/ \E method \in {"POST", "GET"} :
            ExternalAuthHook("g1", method, FALSE, "", "", EmptyKey, FALSE)
    \/ /\ Free("g1")
       /\ \E username \in Usernames, password \in Passwords, publicKey \in RequestKeys,
             dbOk \in BOOLEAN :
               ExternalAuthHook("g1", "POST", TRUE, username, password, publicKey, dbOk)
    \/ Return("g1")

SpecHook == Init /\ [][NextHook]_vars

\* The token cache under calls of getToken while time passes.
NextToken ==
    \/ \E r \in TokenResponses : GetTokenCall("g1", r)
    \/ Return("g1")
    \/ Tick

SpecToken == Init /\ [][NextToken]_vars

\* Goroutines that need the token at the same time.
NextLock ==
    \/ \E p \in Procs :
            \/ GetTokenEnter(p)
            \/ GetTokenWake(p)
            \/ \E r \in TokenResponses : GetTokenReply(p, r)
            \/ Return(p)
    \/ Tick

SpecLock == Init /\ [][NextLock]_vars

\* The same goroutines under the scheduling the code relies on: a token
\* request that is in flight returns (the external server answers or the
\* transport gives up), and a goroutine blocked in c.mu.Lock() is not passed
\* over for ever (sync.Mutex hands the lock to a waiter that starves).
FairLock ==
    \A p \in Procs :
        /\ WF_vars(\E r \in TokenResponses : GetTokenReply(p, r))
        /\ SF_vars(GetTokenWake(p))

SpecLockFair == Init /\ [][NextLock]_vars /\ FairLock

\* The virtual paths of the upload events: none, a CSV file with a leading
\* slash and capitals, another file.
UploadPaths == {<< >>, <<"/", "F", ".", "C", "S", "V">>, <<"f", ".", "t", "x", "t">>}
\* The headers of the uploaded files: the five columns, the required ones
\* in another order with capitals and spaces, and one without each of them.
CSVHeaders ==
    {<<ColKey, ColTitle, ColDescription, ColCategory, ColValue>>,
     <<<<"V", "a", "l", "u", "e", " ">>, <<" ", "K", "E", "Y">>, ColTitle>>,
     <<ColKey, ColValue>>,
     <<ColKey, ColTitle>>,
     <<ColTitle, ColValue>>}
KeyCells == {<<"a">>, <<"b", " ">>}
\* The title and the value of a row.
TitleValueCells ==
    {<<<<" ", "t">>, <<"1">>>>, <<<<"u", " ">>, <<" ", "2">>>>, <<<<"t">>, <<"x">>>>}
\* The data rows a file may hold under a header of n cells with the columns at
\* colIndex, and a row of one field.
RowsFor(n, colIndex) ==
    {[i \in 1 .. n |->
        IF i = colIndex.key THEN key
        ELSE IF i = colIndex.title THEN tv[1]
        ELSE IF i = colIndex.value THEN tv[2]
        ELSE IF i = colIndex.description THEN <<" ", "d">>
        ELSE <<"c">>] : key \in KeyCells, tv \in TitleValueCells}
    \cup {<<<<"a">>>>}

\* Upload events and the ingestions they start, one at a time; alice is a
\* tenant of the registry or becomes one, bob is none.
NextIngest ==
    \/ SeedTenant("g1", "t1", "alice", "pw1", EmptyKey)
    \/ \E method \in {"POST", "GET"} :
            UploadEventHook("g1", "w1", method, FALSE, "", << >>)
    \/ \E username \in Usernames \cup {""}, path \in UploadPaths :
            UploadEventHook("g1", "w1", "POST", TRUE, username, path)
    \/ \E dbOk \in BOOLEAN : WorkerLookup("w1", dbOk)
    \/ WorkerFetch("w1", FALSE, << >>)
    \/ \E header \in CSVHeaders : WorkerFetch("w1", TRUE, header)
    \/ WorkerRow("w1", TRUE, << >>, FALSE)
    \/ /\ workers["w1"].pc = "rows"
       /\ \E row \in RowsFor(Len(workers["w1"].header), workers["w1"].colIndex),
             dbOk \in BOOLEAN :
            WorkerRow("w1", FALSE, row, dbOk)
    \/ WorkerReturn("w1")
    \/ Return("g1")

SpecIngest == Init /\ [][NextIngest]_vars

\* Two files of one tenant uploaded at about the same time: the same keys, and
\* no title, description, category or value in common.
FullHeader == <<ColKey, ColTitle, ColDescription, ColCategory, ColValue>>
RaceRows(w) ==
    IF w = "w1"
    THEN {<<<<"a">>, <<"t">>, <<"d">>, <<"c">>, <<"1">>>>,
          <<<<"b">>, <<"t">>, <<"d">>, <<"c">>, <<"1">>>>}
    ELSE {<<<<"a">>, <<"u">>, <<"e">>, <<"f">>, <<"2">>>>,
          <<<<"b">>, <<"u">>, <<"e">>, <<"f">>, <<"2">>>>}

\* Two ingestions running at the same time, for one tenant or for two, and a
\* reader.
NextRace ==
    \/ CreateAPIKey("g1", "k1", TRUE)
    \/ SeedTenant("g1", "t1", "alice", "pw1", EmptyKey)
    \/ tenants # {} /\ SeedTenant("g1", "t2", "bob", "pw1", EmptyKey)
    \/ \E w \in Workers, username \in Usernames :
            UploadEventHook("g1", w, "POST", TRUE, username, <<"/", "F", ".", "C", "S", "V">>)
    \/ \E w \in Workers : WorkerLookup(w, TRUE)
    \/ \E w \in Workers : WorkerFetch(w, TRUE, FullHeader)
    \/ \E w \in Workers : WorkerRow(w, TRUE, << >>, FALSE)
    \/ \E w \in Workers : \E row \in RaceRows(w) : WorkerRow(w, FALSE, row, TRUE)
    \/ \E hdr \in Passing : ListTenantRecords("g1", hdr, TRUE, 1, TRUE, TRUE)
    \/ Return("g1")

SpecRace == Init /\ [][NextRace]_vars

\* The token endpoint fails, or answers with a token that outlasts the run.
LifeTokenResponses ==
    {TokenFailure, [ok |-> TRUE, access_token |-> "tokA", expires_at |-> TokenSkew + MaxTime + 1]}

\* A tenant that is provisioned, uploads a file and is deleted, in any order
\* the requests and the ingestion allow.
NextLife ==
    \/ CreateAPIKey("g1", "k1", TRUE)
    \/ \E hdr \in Passing, r \in LifeTokenResponses, srvOk \in BOOLEAN :
            CreateTenantUser("g1", hdr, TRUE, "alice", "pw1", "gen1", KeyA, "t1", r, srvOk)
    \/ \E dbOk \in BOOLEAN : CreateTenantRow("g1", dbOk)
    \/ \E hdr \in Passing, id \in Ids, dbOk \in BOOLEAN :
            DeleteTenantSelect("g1", hdr, TRUE, id, dbOk)
    \/ \E dbOk \in BOOLEAN : DeleteTenantRow("g1", dbOk)
    \/ \E r \in LifeTokenResponses, srvOk \in BOOLEAN : DeleteTenantUser("g1", r, srvOk)
    \/ \E hdr \in Passing, id \in Ids : UpdateTenantKeysGet("g1", hdr, TRUE, id, TRUE, KeyB, TRUE)
    \/ \E dbOk \in BOOLEAN : UpdateTenantKeysRow("g1", dbOk)
    \/ \E r \in LifeTokenResponses, srvOk \in BOOLEAN : UpdateTenantKeysUser("g1", r, srvOk)
    \/ \E hdr \in Passing, id \in Ids : ListTenantRecords("g1", hdr, TRUE, id, TRUE, TRUE)
    \/ UploadEventHook("g1", "w1", "POST", TRUE, "alice", <<"/", "F", ".", "C", "S", "V">>)
    \/ WorkerLookup("w1", TRUE)
    \/ WorkerFetch("w1", TRUE, FullHeader)
    \/ WorkerRow("w1", TRUE, << >>, FALSE)
    \/ \E row \in RaceRows("w1") : WorkerRow("w1", FALSE, row, TRUE)
    \/ WorkerReturn("w1")
    \/ Return("g1")

SpecLife == Init /\ [][NextLife]_vars

\* The registry under CreateTenant requests and direct DB.CreateTenant calls
\* with any username and any tenant token, and under deletions.
NextRegistry ==
    \/ CreateAPIKey("g1", "k1", TRUE)
    \/ \E tenantID \in TenantIDs, username \in Usernames :
            SeedTenant("g1", tenantID, username, "pw1", EmptyKey)
    \/ \E hdr \in Passing, tenantID \in TenantIDs, username \in Usernames,
          r \in LifeTokenResponses, srvOk \in BOOLEAN :
            CreateTenantUser("g1", hdr, TRUE, username, "", "gen1", EmptyKey, tenantID, r, srvOk)
    \/ \E dbOk \in BOOLEAN : CreateTenantRow("g1", dbOk)
    \/ \E hdr \in Passing, id \in Ids : DeleteTenantSelect("g1", hdr, TRUE, id, TRUE)
    \/ \E dbOk \in BOOLEAN : DeleteTenantRow("g1", dbOk)
    \/ \E r \in LifeTokenResponses, srvOk \in BOOLEAN : DeleteTenantUser("g1", r, srvOk)
    \/ Return("g1")

SpecRegistry == Init /\ [][NextRegistry]_vars

\* The administrative requests about one tenant id, one after the other, with
\* the storage engine and the external server failing at any call: alice is
\* provisioned through the service, bob is a row without an external user.
NextAdmin ==
    \/ CreateAPIKey("g1", "k1", TRUE)
    \/ tenants # {} /\ SeedTenant("g1", "t2", "bob", "pw1", EmptyKey)
    \/ \E hdr \in Passing, r \in ProvTokenResponses, srvOk \in BOOLEAN :
            CreateTenantUser("g1", hdr, TRUE, "alice", "", "gen1", KeyA, "t1", r, srvOk)
    \/ \E dbOk \in BOOLEAN : CreateTenantRow("g1", dbOk)
    \/ \E hdr \in Passing :
            \/ HandleGetTenant("g1", hdr, FALSE, 0, FALSE)
            \/ \E id \in Ids, dbOk \in BOOLEAN : HandleGetTenant("g1", hdr, TRUE, id, dbOk)
    \/ \E hdr \in Passing :
            \/ ValidateTenantGet("g1", hdr, FALSE, 0, FALSE)
            \/ \E id \in Ids, dbOk \in BOOLEAN : ValidateTenantGet("g1", hdr, TRUE, id, dbOk)
    \/ \E r \in ProvTokenResponses, srvOk \in BOOLEAN, status \in UserStatuses :
            ValidateTenantUser("g1", r, srvOk, status)
    \/ \E hdr \in Passing, id \in Ids, dbOk \in BOOLEAN :
            DeleteTenantSelect("g1", hdr, TRUE, id, dbOk)
    \/ \E dbOk \in BOOLEAN : DeleteTenantRow("g1", dbOk)
    \/ \E r \in ProvTokenResponses, srvOk \in BOOLEAN : DeleteTenantUser("g1", r, srvOk)
    \/ \E hdr \in Passing, id \in Ids, dbOk \in BOOLEAN :
            UpdateTenantKeysGet("g1", hdr, TRUE, id, TRUE, KeyB, dbOk)
    \/ \E dbOk \in BOOLEAN : UpdateTenantKeysRow("g1", dbOk)
    \/ \E r \in ProvTokenResponses, srvOk \in BOOLEAN : UpdateTenantKeysUser("g1", r, srvOk)
    \/ \E hdr \in Passing, id \in Ids, dbOk \in BOOLEAN, listOk \in BOOLEAN :
            ListTenantRecords("g1", hdr, TRUE, id, dbOk, listOk)
    \/ Return("g1")

SpecAdmin == Init /\ [][NextAdmin]_vars

\* Two authentication hook calls at a time; the registry changes between them
\* only while no answer stands.
NextHookPair ==
    \/ /\ \A p \in Procs : Free(p)
       /\ \E password \in StoredPasswords, publicKey \in {EmptyKey, KeyA} :
            SeedTenant("g1", "t1", "alice", password, publicKey)
    \/ /\ \A p \in Procs : Free(p)
       /\ CreateAPIKey("g1", "k1", TRUE)
    \/ \E p \in Procs :
            \/ \E method \in {"POST", "GET"} :
                    ExternalAuthHook(p, method, FALSE, "", "", EmptyKey, FALSE)
            \/ \E username \in Usernames, password \in Passwords,
                  publicKey \in {EmptyKey, KeyA, KeyC}, dbOk \in BOOLEAN :
                    ExternalAuthHook(p, "POST", TRUE, username, password, publicKey, dbOk)
            \/ Return(p)

SpecHookPair == Init /\ [][NextHookPair]_vars

\* The paths of the uploaded CSV files, with and without the leading slash.
StorePaths == {<<"/", "F", ".", "C", "S", "V">>, <<"f", ".", "c", "s", "v">>}

\* One tenant from provisioning to deletion, under either tenant token, with
\* its logins and its uploads.
NextStore ==
    \/ CreateAPIKey("g1", "k1", TRUE)
    \/ \E hdr \in Passing, tenantID \in TenantIDs, r \in LifeTokenResponses, srvOk \in BOOLEAN :
            CreateTenantUser("g1", hdr, TRUE, "alice", "pw1", "gen1", KeyA, tenantID, r, srvOk)
    \/ \E dbOk \in BOOLEAN : CreateTenantRow("g1", dbOk)
    \/ \E hdr \in Passing, id \in Ids : DeleteTenantSelect("g1", hdr, TRUE, id, TRUE)
    \/ DeleteTenantRow("g1", TRUE)
    \/ \E r \in LifeTokenResponses, srvOk \in BOOLEAN : DeleteTenantUser("g1", r, srvOk)
    \/ \E password \in {"pw1", "pw2"}, publicKey \in {EmptyKey, KeyA} :
            ExternalAuthHook("g1", "POST", TRUE, "alice", password, publicKey, TRUE)
    \/ \E path \in StorePaths : UploadEventHook("g1", "w1", "POST", TRUE, "alice", path)
    \/ WorkerLookup("w1", TRUE)
    \/ WorkerFetch("w1", FALSE, << >>)
    \/ WorkerReturn("w1")
    \/ Return("g1")

SpecStore == Init /\ [][NextStore]_vars

\* The keys POST /api/keys may draw.
BootstrapKeys == {"k1", "k2"}

\* The administrative requests while keys are created and time passes.
NextKeys ==
    \/ \E key \in BootstrapKeys, dbOk \in BOOLEAN : CreateAPIKey("g1", key, dbOk)
    \/ \E hdr \in Passing, r \in LifeTokenResponses :
            CreateTenantUser("g1", hdr, TRUE, "alice", "", "gen1", KeyA, "t1", r, TRUE)
    \/ \E dbOk \in BOOLEAN : CreateTenantRow("g1", dbOk)
    \/ \E hdr \in Passing, id \in Ids : HandleGetTenant("g1", hdr, TRUE, id, TRUE)
    \/ \E hdr \in Passing, id \in Ids : ValidateTenantGet("g1", hdr, TRUE, id, TRUE)
    \/ \E r \in LifeTokenResponses, status \in UserStatuses :
            ValidateTenantUser("g1", r, TRUE, status)
    \/ \E hdr \in Passing, id \in Ids : DeleteTenantSelect("g1", hdr, TRUE, id, TRUE)
    \/ \E dbOk \in BOOLEAN : DeleteTenantRow("g1", dbOk)
    \/ \E r \in LifeTokenResponses : DeleteTenantUser("g1", r, TRUE)
    \/ \E hdr \in Passing, id \in Ids : UpdateTenantKeysGet("g1", hdr, TRUE, id, TRUE, KeyB, TRUE)
    \/ \E dbOk \in BOOLEAN : UpdateTenantKeysRow("g1", dbOk)
    \/ \E r \in LifeTokenResponses : UpdateTenantKeysUser("g1", r, TRUE)
    \/ \E hdr \in Headers : Rejected("g1", "get", hdr)
    \/ ExternalAuthHook("g1", "POST", TRUE, "alice", "gen1", EmptyKey, TRUE)
    \/ UploadEventHook("g1", "w1", "POST", TRUE, "alice", << >>)
    \/ WorkerLookup("w1", TRUE)
    \/ WorkerReturn("w1")
    \/ Return("g1")
    \/ Tick

SpecKeys == Init /\ [][NextKeys]_vars

\* What a registry statement can return: on a closed handle, only an error.
HandleOutcomes == {dbOk \in BOOLEAN : HandleOpen \/ ~dbOk}

\* Deletions and key rotations in flight while the process is told to stop:
\* requests start while the server accepts, and go on until the process ends.
NextDown ==
    \/ Accepting /\ CreateAPIKey("g1", "k1", TRUE)
    \/ Accepting /\ SeedTenant("g1", "t1", "alice", "pw1", EmptyKey)
    \/ \E p \in Procs :
            \/ /\ Accepting
               /\ \E hdr \in Passing, id \in Ids, dbOk \in BOOLEAN :
                    \/ DeleteTenantSelect(p, hdr, TRUE, id, dbOk)
                    \/ UpdateTenantKeysGet(p, hdr, TRUE, id, TRUE, KeyB, dbOk)
            \/ /\ Running
               /\ \/ \E dbOk \in HandleOutcomes : DeleteTenantRow(p, dbOk)
                  \/ \E dbOk \in HandleOutcomes : UpdateTenantKeysRow(p, dbOk)
                  \/ \E r \in LifeTokenResponses, srvOk \in BOOLEAN :
                        \/ DeleteTenantUser(p, r, srvOk)
                        \/ UpdateTenantKeysUser(p, r, srvOk)
                  \/ Return(p)
    \/ Signal
    \/ CloseDB
    \/ Exit

SpecDown == Init /\ [][NextDown]_vars

\* The passwords the external server passes on at a login.
LoginPasswords == Passwords \cup GenPasswords

\* A tenant created with a password of its own or with a generated one, a key
\* rotation, its deletion and re-creation, and the logins the external server
\* asks about in the meantime, served by a goroutine of their own.
NextLogin ==
    \/ CreateAPIKey("g1", "k1", TRUE)
    \/ \E hdr \in Passing, supplied \in {"", "pw1"}, gen \in GenPasswords,
          publicKey \in {EmptyKey, KeyA}, r \in LifeTokenResponses, srvOk \in BOOLEAN :
            CreateTenantUser("g1", hdr, TRUE, "alice", supplied, gen, publicKey, "t1", r, srvOk)
    \/ \E dbOk \in BOOLEAN : CreateTenantRow("g1", dbOk)
    \/ \E hdr \in Passing, id \in Ids : DeleteTenantSelect("g1", hdr, TRUE, id, TRUE)
    \/ DeleteTenantRow("g1", TRUE)
    \/ \E r \in LifeTokenResponses, srvOk \in BOOLEAN : DeleteTenantUser("g1", r, srvOk)
    \/ \E hdr \in Passing, id \in Ids : UpdateTenantKeysGet("g1", hdr, TRUE, id, TRUE, KeyB, TRUE)
    \/ UpdateTenantKeysRow("g1", TRUE)
    \/ \E r \in LifeTokenResponses, srvOk \in BOOLEAN : UpdateTenantKeysUser("g1", r, srvOk)
    \/ \E username \in Usernames, password \in LoginPasswords,
          publicKey \in {EmptyKey, KeyA, KeyC}, dbOk \in BOOLEAN :
            ExternalAuthHook("g2", "POST", TRUE, username, password, publicKey, dbOk)
    \/ \E p \in Procs : Return(p)

SpecLogin == Init /\ [][NextLogin]_vars

\* The keys two rotations of one tenant carry.
RotationKeys == {KeyB, KeyC}

\* Create, delete and rotate requests about one username served at the same
\* time by two goroutines, every registry statement and every external call
\* failing or not.
NextConc ==
    \/ CreateAPIKey("g1", "k1", TRUE)
    \/ \E p \in Procs :
            \/ \E hdr \in Passing, r \in LifeTokenResponses, srvOk \in BOOLEAN :
                    CreateTenantUser(p, hdr, TRUE, "alice", "pw1", "gen1", KeyA, "t1", r, srvOk)
            \/ \E dbOk \in BOOLEAN : CreateTenantRow(p, dbOk)
            \/ \E hdr \in Passing, id \in Ids, dbOk \in BOOLEAN :
                    DeleteTenantSelect(p, hdr, TRUE, id, dbOk)
            \/ \E dbOk \in BOOLEAN : DeleteTenantRow(p, dbOk)
            \/ \E r \in LifeTokenResponses, srvOk \in BOOLEAN : DeleteTenantUser(p, r, srvOk)
            \/ \E hdr \in Passing, id \in Ids, publicKey \in RotationKeys, dbOk \in BOOLEAN :
                    UpdateTenantKeysGet(p, hdr, TRUE, id, TRUE, publicKey, dbOk)
            \/ \E dbOk \in BOOLEAN : UpdateTenantKeysRow(p, dbOk)
            \/ \E r \in LifeTokenResponses, srvOk \in BOOLEAN : UpdateTenantKeysUser(p, r, srvOk)
            \/ Return(p)

SpecConc == Init /\ [][NextConc]_vars

\* The token endpoint answers with a token that outlasts the run.
TokenGranted == [ok |-> TRUE, access_token |-> "tokA", expires_at |-> TokenSkew + MaxTime + 1]

\* Key rotations of the tenants served at the same time by two goroutines, no
\* registry statement and no external call failing.
NextRotate ==
    \/ CreateAPIKey("g1", "k1", TRUE)
    \/ \E p \in Procs :
            \/ \E hdr \in Passing, username \in Usernames, publicKey \in {EmptyKey, KeyA} :
                    /\ username \notin ExtNames
                    /\ CreateTenantUser(p, hdr, TRUE, username, "pw1", "gen1", publicKey,
                                        IF username = "alice" THEN "t1" ELSE "t2",
                                        TokenGranted, TRUE)
            \/ CreateTenantRow(p, TRUE)
            \/ \E hdr \in Passing, id \in Ids, publicKey \in RotationKeys :
                    /\ RowsById(id) # {}
                    /\ UpdateTenantKeysGet(p, hdr, TRUE, id, TRUE, publicKey, TRUE)
            \/ UpdateTenantKeysRow(p, TRUE)
            \/ UpdateTenantKeysUser(p, TokenGranted, TRUE)
            \/ Return(p)

SpecRotate == Init /\ [][NextRotate]_vars

\* The keys a rotation may carry: another key material than the first key's,
\* the same key material under another name, and a text of one field.
RekeyKeys == {KeyC, KeyB, <<"a">>}
\* The keys the external server may pass on at a login.
RekeyLoginKeys == {EmptyKey, KeyA, KeyC, <<"b", " ", "a">>, <<"a">>}

\* A tenant whose key is rotated, the external call failing or not, and the
\* logins the external server asks about in the meantime.
NextRekey ==
    \/ CreateAPIKey("g1", "k1", TRUE)
    \/ \E hdr \in Passing, srvOk \in BOOLEAN :
            CreateTenantUser("g1", hdr, TRUE, "alice", "pw1", "gen1", KeyA, "t1",
                             TokenGranted, srvOk)
    \/ \E dbOk \in BOOLEAN : CreateTenantRow("g1", dbOk)
    \/ \E hdr \in Passing, id \in Ids, publicKey \in RekeyKeys, dbOk \in BOOLEAN :
            UpdateTenantKeysGet("g1", hdr, TRUE, id, TRUE, publicKey, dbOk)
    \/ \E dbOk \in BOOLEAN : UpdateTenantKeysRow("g1", dbOk)
    \/ \E r \in LifeTokenResponses, srvOk \in BOOLEAN : UpdateTenantKeysUser("g1", r, srvOk)
    \/ \E password \in {"", "pw1", "pw2"}, publicKey \in RekeyLoginKeys :
            ExternalAuthHook("g2", "POST", TRUE, "alice", password, publicKey, TRUE)
    \/ \E p \in Procs : Return(p)

SpecRekey == Init /\ [][NextRekey]_vars

\* Tenants that come and go: creations of either username, deletions, and
\* requests addressed to an id, served by two goroutines.
NextReuse ==
    \/ CreateAPIKey("g1", "k1", TRUE)
    \/ \E p \in Procs :
            \/ \E hdr \in Passing, username \in Usernames :
                    CreateTenantUser(p, hdr, TRUE, username, "pw1", "gen1", EmptyKey,
                                     IF username = "alice" THEN "t1" ELSE "t2",
                                     TokenGranted, TRUE)
            \/ \E dbOk \in BOOLEAN : CreateTenantRow(p, dbOk)
            \/ \E hdr \in Passing, id \in Ids : DeleteTenantSelect(p, hdr, TRUE, id, TRUE)
            \/ DeleteTenantRow(p, TRUE)
            \/ \E srvOk \in BOOLEAN : DeleteTenantUser(p, TokenGranted, srvOk)
            \/ \E hdr \in Passing, id \in Ids : HandleGetTenant(p, hdr, TRUE, id, TRUE)
            \/ Return(p)

SpecReuse == Init /\ [][NextReuse]_vars

(* -------------------------------- claims ------------------------------ *)

\* The event e is in the history h of a request.
Has(h, e) == \E i \in 1 .. Len(h) : h[i] = e
\* The event a is in the history h before the event b.
Precedes(h, a, b) == \E i, j \in 1 .. Len(h) : i < j /\ h[i] = a /\ h[j] = b
\* The second white-space separated field of a key text, if it has one.
KeyMaterial(k) == IF Len(Fields(k)) >= 2 THEN <<Fields(k)[2]>> ELSE << >>
\* The error text names the state split between the registry and the server.
NamesSplit(body) ==
    /\ body.kind = "error"
    /\ body.error[1] \in {"deleted from db but sftpgo failed",
                          "created in sftpgo but db failed"}

\* C1: a CreateTenant request writes its registry row only after its own
\* create-user call succeeded; when that call fails (no token, or a status other
\* than created) the request is answered 502 and the registry is left as it was.
C1_CreateAfterExternal ==
    [][\A p \in Procs :
         LET old == procs[p]
             new == procs'[p]
         IN
         /\ (new # old /\ new.kind = "create" /\ tenants' # tenants) =>
                /\ old.kind = "create"
                /\ Has(old.hist, "ext_ok")
                /\ ~Has(old.hist, "ext_err")
         /\ (new # old /\ new.kind = "create" /\ Has(new.hist, "ext_err")) =>
                /\ new.pc = "done"
                /\ new.status = StatusBadGateway
                /\ tenants' = tenants]_vars

\* C1 witness: with a row in the registry, a create request was answered 502
\* after its create-user call failed.
C1_Witness ==
    /\ tenants # {}
    /\ \E p \in Procs :
          /\ procs[p].kind = "create"
          /\ procs[p].pc = "done"
          /\ procs[p].status = StatusBadGateway
          /\ Has(procs[p].hist, "create_user")

\* C2: a DeleteTenant request removes the registry row before it calls
\* delete-user; when that call fails the request is answered 502, the row stays
\* removed and the external user is still there.
C2_DeleteRegistryFirst ==
    \A p \in Procs :
        LET r == procs[p] IN
        r.kind = "delete" =>
            /\ Has(r.hist, "delete_user") => Precedes(r.hist, "db_delete_ok", "delete_user")
            /\ (r.pc = "done" /\ Has(r.hist, "ext_err")) =>
                   /\ r.status = StatusBadGateway
                   /\ RowsById(r.id) = {}
                   /\ RowsByUsername(r.username) = {}
                   /\ r.username \in ExtNames

\* C2 witness: a delete request was answered 502 after its delete-user call
\* was sent and failed.
C2_Witness ==
    \E p \in Procs :
        /\ procs[p].kind = "delete"
        /\ procs[p].pc = "done"
        /\ procs[p].status = StatusBadGateway
        /\ Has(procs[p].hist, "delete_user")

\* C3: whenever the second step of a two-step request fails after the first
\* succeeded (the registry write after the external create, the external delete
\* after the registry removal), the answer is 502 with an error naming the split.
C3_SplitAnswered502 ==
    \A p \in Procs :
        LET r == procs[p] IN
        (/\ r.pc = "done"
         /\ \/ Precedes(r.hist, "ext_ok", "db_insert_err")
            \/ Precedes(r.hist, "db_delete_ok", "ext_err")) =>
            /\ r.status = StatusBadGateway
            /\ NamesSplit(r.body)

\* C4: the retry of a DeleteTenant request whose external delete failed issues
\* the delete-user call again (the registry being available).
C4_RetryReissuesDelete ==
    \A p \in Procs :
        LET r == procs[p] IN
        (r.kind = "delete" /\ r.retry /\ r.pc = "done" /\ ~Has(r.hist, "db_err")) =>
            Has(r.hist, "delete_user")

\* C5: an UpdateTenantKeys request writes the key to the registry before it
\* calls the external server; when that call fails the answer is 502 and the
\* registry holds the new key; a request (a retry too) that succeeds leaves the
\* registry and the external user holding that same key.
C5_UpdateRegistryFirst ==
    \A p \in Procs :
        LET r == procs[p] IN
        r.kind = "update" =>
            /\ Has(r.hist, "update_user") => Precedes(r.hist, "db_update_ok", "update_user")
            /\ (r.pc = "done" /\ Has(r.hist, "ext_err")) =>
                   /\ r.status = StatusBadGateway
                   /\ \E t \in tenants : t.id = r.id /\ t.public_key = r.public_key
            /\ (r.pc = "done" /\ r.status = StatusOK) =>
                   /\ \E t \in tenants : t.id = r.id /\ t.public_key = r.public_key
                   /\ \E x \in extUsers :
                         x.username = r.username /\ x.public_keys = <<r.public_key>>

\* C5 witness: the retry of an update request that was answered 502 succeeded.
C5_Witness ==
    \E p \in Procs :
        /\ procs[p].kind = "update"
        /\ procs[p].retry
        /\ procs[p].pc = "done"
        /\ procs[p].status = StatusOK

\* C6: when the public key of a hook request does not match the stored one (or
\* one of them is absent), the request is authenticated exactly when its
\* password is not empty, the stored password is not empty, and they are equal;
\* otherwise it is answered 403.
C6_PasswordMatch ==
    \A p \in Procs :
        LET r == procs[p] IN
        (r.kind = "auth_hook" /\ r.pc = "done" /\ Has(r.hist, "db_select_ok")) =>
            \A t \in RowsByUsername(r.username) :
                (\/ KeyMaterial(r.public_key) = << >>
                 \/ KeyMaterial(r.public_key) # KeyMaterial(t.public_key)) =>
                    IF r.password # "" /\ t.password # "" /\ r.password = t.password
                    THEN r.status = StatusOK /\ Has(r.hist, "password")
                    ELSE r.status = StatusForbidden

\* C6 witness: an empty password against an empty stored password was answered 403.
C6_Witness ==
    \E p \in Procs :
        /\ procs[p].kind = "auth_hook"
        /\ procs[p].pc = "done"
        /\ Has(procs[p].hist, "db_select_ok")
        /\ procs[p].status = StatusForbidden
        /\ procs[p].password = ""
        /\ \E t \in RowsByUsername(procs[p].username) : t.password = ""

\* C7: with both keys present, the key check authenticates exactly when the
\* second white-space separated field of the request's key equals the second
\* field of the stored key; the first field and a third field play no part.
C7_SecondField ==
    \A p \in Procs :
        LET r == procs[p] IN
        (r.kind = "auth_hook" /\ r.pc = "done" /\ Has(r.hist, "db_select_ok")) =>
            \A t \in RowsByUsername(r.username) :
                (r.public_key # EmptyKey /\ t.public_key # EmptyKey) =>
                    (Has(r.hist, "public_key") <=>
                        /\ Len(Fields(r.public_key)) >= 2
                        /\ Len(Fields(t.public_key)) >= 2
                        /\ Fields(r.public_key)[2] = Fields(t.public_key)[2])

\* C7 witness: a key was accepted whose first field differs from the stored
\* key's, against a stored key that has a third field the request's key lacks.
C7_Witness ==
    \E p \in Procs :
        /\ procs[p].kind = "auth_hook"
        /\ procs[p].pc = "done"
        /\ Has(procs[p].hist, "public_key")
        /\ \E t \in RowsByUsername(procs[p].username) :
              /\ Len(Fields(t.public_key)) >= 3
              /\ Len(Fields(procs[p].public_key)) = 2
              /\ Fields(t.public_key)[1] # Fields(procs[p].public_key)[1]

\* The request r matches the password or the key material of a registry tenant.
Matches(r) ==
    \E t \in RowsByUsername(r.username) :
        \/ KeyMaterial(r.public_key) # << >> /\ KeyMaterial(r.public_key) = KeyMaterial(t.public_key)
        \/ r.password # "" /\ t.password # "" /\ r.password = t.password

C9_BearerOnly ==
    [][\A p \in Procs :
         LET old == procs[p]
             new == procs'[p]
         IN
         (/\ new # old
          /\ old.pc \in {"idle", "done"}
          /\ new.kind \in {"create", "delete", "update"}) =>
             IF new.auth.scheme = "Bearer" /\ new.auth.cred \in apiKeys
             THEN new.status # StatusUnauthorized
             ELSE /\ new.status = StatusUnauthorized
                  /\ new.pc = "done"
                  /\ new.hist = << >>
                  /\ UNCHANGED <<apiKeys, tenants, extUsers, token, tokenExp>>]_vars

\* C9 witness: with a key in the key table, a request bearing another key was
\* answered 401.
C9_Witness ==
    /\ apiKeys # {}
    /\ \E p \in Procs :
          /\ procs[p].kind \in {"create", "delete", "update"}
          /\ procs[p].status = StatusUnauthorized
          /\ procs[p].auth.scheme = "Bearer"
          /\ procs[p].auth.cred \notin apiKeys

\* C10: getToken returns the cached token without a request to the server
\* whenever a token is cached and the time is before the expiry the server
\* reported less 30 seconds; otherwise it sends a token request.
C10_TokenCache ==
    [][\A p \in Procs :
         LET old == procs[p]
             new == procs'[p]
         IN
         (new # old /\ new.kind = "get_token") =>
             IF token # "" /\ now < reported - TokenSkew
             THEN /\ new.hist = << >>
                  /\ new.body = JSONBody([token |-> token])
                  /\ UNCHANGED <<token, tokenExp>>
             ELSE new.hist = <<"token_request">>]_vars

\* C10 witness: a getToken call returned a token without any request sent.
C10_Witness ==
    \E p \in Procs :
        /\ procs[p].kind = "get_token"
        /\ procs[p].pc = "done"
        /\ procs[p].hist = << >>
        /\ procs[p].body.kind = "json"

Last(h) == h[Len(h)]
\* Row i of the ingestion j: what the log says of it, its trimmed key, the
\* fields an upsert of it writes, and whether its value parses.
RowLog(j, i) == j.log[i + 1]
RowKey(j, i) == TrimSpace(Cell(j.rows[i], j.colIndex.key))
RowFields(j, i) ==
    [title |-> TrimSpace(Cell(j.rows[i], j.colIndex.title)),
     description |-> OptionalCell(j.rows[i], j.colIndex.description),
     category |-> OptionalCell(j.rows[i], j.colIndex.category),
     value |-> ParseFloat(TrimSpace(Cell(j.rows[i], j.colIndex.value))).value]
Parsable(j, i) ==
    /\ Len(j.rows[i]) = Len(j.header)
    /\ ParseFloat(TrimSpace(Cell(j.rows[i], j.colIndex.value))).ok
Written(j, i) == Parsable(j, i) /\ RowLog(j, i) # "upsert record error"
RecordFields(r) ==
    [title |-> r.title, description |-> r.description, category |-> r.category,
     value |-> r.value]
\* The ingestion j read its file to the end of the stream.
Exhausted(j) == j.pc = "done" /\ j.log # << >> /\ Last(j.log) = "processed"
\* The header lacks one of the required columns.
Lacks(header) ==
    /\ header # << >>
    /\ \E name \in {ColKey, ColTitle, ColValue} :
          \A i \in 1 .. Len(header) : TrimSpace(ToLower(header[i])) # name

\* C12 as stated: after an ingestion that ran to the end of the stream, every
\* key of a row with a parsable value has a record with the fields of the last
\* such row, and the records of other keys are as they were.
C12_LastRowWins ==
    \A w \in Workers :
        LET j == workers[w] IN
        Exhausted(j) =>
            /\ \A i \in 1 .. Len(j.rows) :
                  Parsable(j, i) =>
                      LET last == Max({k \in 1 .. Len(j.rows) :
                                        Parsable(j, k) /\ RowKey(j, k) = RowKey(j, i)})
                      IN \E r \in records :
                            /\ r.tenant_id = j.tenant_id
                            /\ r.record_key = RowKey(j, i)
                            /\ RecordFields(r) = RowFields(j, last)
            /\ \A r \in records \cup j.before :
                  (\/ r.tenant_id # j.tenant_id
                   \/ \A i \in 1 .. Len(j.rows) :
                         ~(Parsable(j, i) /\ RowKey(j, i) = r.record_key)) =>
                      (r \in records <=> r \in j.before)

\* C12: after an ingestion that ran to the end of the stream with no other
\* ingestion running, every key of a row with a parsable value whose upsert
\* succeeded has one record, with the trimmed title, description, category and
\* the value of the last such row (description and category empty when their
\* column is absent); every other record is as it was before the ingestion.
C12_LastWrittenRowWins ==
    \A w \in Workers :
        LET j == workers[w] IN
        Exhausted(j) =>
            /\ \A i \in 1 .. Len(j.rows) :
                  Written(j, i) =>
                      LET last == Max({k \in 1 .. Len(j.rows) :
                                        Written(j, k) /\ RowKey(j, k) = RowKey(j, i)})
                      IN \E r \in records :
                            /\ r.tenant_id = j.tenant_id
                            /\ r.record_key = RowKey(j, i)
                            /\ RecordFields(r) = RowFields(j, last)
            /\ \A r \in records \cup j.before :
                  (\/ r.tenant_id # j.tenant_id
                   \/ \A i \in 1 .. Len(j.rows) :
                         ~(Written(j, i) /\ RowKey(j, i) = r.record_key)) =>
                      (r \in records <=> r \in j.before)

\* C12 witness: a finished ingestion wrote two rows of one key with different
\* fields, while the table held a record of another key.
C12_Witness ==
    \E w \in Workers :
        LET j == workers[w] IN
        /\ Exhausted(j)
        /\ Len(j.rows) = 2
        /\ Written(j, 1) /\ Written(j, 2)
        /\ RowKey(j, 1) = RowKey(j, 2)
        /\ RowFields(j, 1) # RowFields(j, 2)
        /\ \E r \in j.before : r.tenant_id = j.tenant_id /\ r.record_key # RowKey(j, 1)

\* C13: an ingestion whose header lacks key, title or value (lower-cased and
\* trimmed) ends at the header: it reads no data row and writes no record.
C13_HeaderRequired ==
    [][\A w \in Workers :
         LET old == workers[w]
             new == workers'[w]
         IN
         /\ (old.pc = "fetch" /\ new # old /\ Lacks(new.header)) =>
                /\ new.pc = "done"
                /\ new.rows = << >>
                /\ new.count = 0
                /\ records' = records
         /\ (old.pc = "done" /\ new # old) =>
                /\ new.pc = "idle"
                /\ records' = records]_vars

\* C13 witness: an ingestion was abandoned at a header without the title column.
C13_Witness ==
    \E w \in Workers :
        /\ workers[w].pc = "done"
        /\ Lacks(workers[w].header)
        /\ \A i \in 1 .. Len(workers[w].header) : workers[w].header[i] # ColTitle
        /\ Last(workers[w].log) = "CSV missing required column"

\* C14: a data row whose value does not parse, or whose upsert fails, leaves
\* the records as they are and the loop running, so that the rows after it are
\* read; the count logged at the end is the number of rows whose upsert succeeded.
C14_RowFailureSkipped ==
    [][\A w \in Workers :
         LET old == workers[w]
             new == workers'[w]
         IN
         /\ (/\ old.pc = "rows"
             /\ Len(new.rows) = Len(old.rows) + 1
             /\ Len(Last(new.rows)) = Len(new.header)
             /\ \/ ~ParseFloat(TrimSpace(Cell(Last(new.rows), new.colIndex.value))).ok
                \/ Last(new.log) = "upsert record error") =>
                /\ records' = records
                /\ new.pc = "rows"
                /\ new.count = old.count
         /\ Exhausted(new) =>
                new.count = Cardinality({i \in 1 .. Len(new.rows) : RowLog(new, i) = "ok"})]_vars

\* C14 witness: a finished ingestion wrote the row after a row whose value did
\* not parse, and logged the count 1.
C14_Witness ==
    \E w \in Workers :
        LET j == workers[w] IN
        /\ Exhausted(j)
        /\ Len(j.rows) = 2
        /\ ~ParseFloat(TrimSpace(Cell(j.rows[1], j.colIndex.value))).ok
        /\ RowLog(j, 2) = "ok"
        /\ j.count = 1
        /\ \E r \in records : r.tenant_id = j.tenant_id /\ r.record_key = RowKey(j, 2)

\* C15: an ingestion that got past the header ends only at the end of the
\* stream: a data row the reader rejects does not end it.
C15_ReaderErrorSkipped ==
    \A w \in Workers :
        (workers[w].pc = "done" /\ workers[w].colIndex # NoColumns) =>
            Last(workers[w].log) = "processed"

\* C16: an upload event whose username or virtual path is empty, whose
\* lower-cased path does not end in .csv, or whose username names no tenant is
\* abandoned before any object is fetched and with the records unchanged; the
\* hook has answered it 200 like any other decodable event.
C16_EventAbandoned ==
    [][/\ \A w \in Workers :
            LET old == workers[w]
                new == workers'[w]
            IN
            (/\ old.pc = "start"
             /\ new # old
             /\ \/ old.username = ""
                \/ old.virtual_path = << >>
                \/ ~HasSuffix(ToLower(old.virtual_path), <<".", "c", "s", "v">>)
                \/ \A t \in tenants : t.username # old.username) =>
                /\ new.pc = "done"
                /\ ~Has(new.log, "get_object")
                /\ new.rows = << >>
                /\ records' = records
       /\ \A w \in Workers :
            (workers[w].pc = "idle" /\ workers'[w].pc = "start") =>
                \E p \in Procs :
                    /\ procs'[p].kind = "upload_event"
                    /\ procs'[p].pc = "done"
                    /\ procs'[p].status = StatusOK]_vars

\* C16 witness: the event of a tenant's upload of a file that is no CSV file
\* was abandoned.
C16_Witness ==
    \E w \in Workers :
        /\ workers[w].pc = "done"
        /\ workers[w].log = <<"skipping non-CSV file">>
        /\ \E t \in tenants : t.username = workers[w].username

\* C17: the upload hook answers every POST event it can decode with 200
\* {status: ok} in the step that starts the ingestion, before the ingestion has
\* done anything, and no step of an ingestion changes the answer of any request.
C17_AnswerBeforeIngestion ==
    [][/\ \A p \in Procs :
            LET old == procs[p]
                new == procs'[p]
            IN
            (/\ new # old
             /\ new.kind = "upload_event"
             /\ new.method = "POST"
             /\ ~Has(new.hist, "decode_err")) =>
                /\ new.pc = "done"
                /\ new.status = StatusOK
                /\ new.body = JSONBody([status |-> "ok"])
                /\ workerOn =>
                      \E w \in Workers : workers[w].pc = "idle" /\ workers'[w].pc = "start"
       /\ \A w \in Workers :
            (workers[w].pc # "idle" /\ workers'[w] # workers[w]) => procs' = procs]_vars

\* C17 witness: the event is answered 200 while its ingestion, which has failed
\* to write a row, is still running.
C17_Witness ==
    \E p \in Procs, w \in Workers :
        /\ procs[p].kind = "upload_event"
        /\ procs[p].pc = "done"
        /\ procs[p].status = StatusOK
        /\ workers[w].pc = "rows"
        /\ Has(workers[w].log, "upsert record error")

\* C19: the records table never holds two records of one (tenant token,
\* record key); an upsert of a pair the table holds overwrites the title,
\* description, category and value of its record and adds none, an upsert of a
\* new pair adds exactly one record, and the other records stay as they are.
C19_UpsertOnePerKey ==
    /\ [](\A r1, r2 \in records :
            (r1.tenant_id = r2.tenant_id /\ r1.record_key = r2.record_key) => r1 = r2)
    /\ [][\A w \in Workers :
            LET old == workers[w]
                new == workers'[w]
            IN
            (old.pc = "rows" /\ new.count = old.count + 1) =>
                LET i == Len(new.rows)
                    same(r) == r.tenant_id = new.tenant_id /\ r.record_key = RowKey(new, i)
                IN
                /\ \E r \in records' : same(r) /\ RecordFields(r) = RowFields(new, i)
                /\ {r \in records' : ~same(r)} = {r \in records : ~same(r)}
                /\ IF \E r \in records : same(r)
                   THEN /\ Cardinality(records') = Cardinality(records)
                        /\ {r.id : r \in records'} = {r.id : r \in records}
                   ELSE Cardinality(records') = Cardinality(records) + 1]_vars

\* C19 witness: a record was overwritten: it holds other fields than the
\* record of its pair held before the ingestion.
C19_Witness ==
    \E w \in Workers :
        \E r \in records, b \in workers[w].before :
            /\ r.tenant_id = b.tenant_id
            /\ r.record_key = b.record_key
            /\ r.id = b.id
            /\ RecordFields(r) # RecordFields(b)

\* C20: ListRecords(t) returns exactly the records whose tenant token is t,
\* each once, and a step of the ingestion of an upload event creates or changes
\* only records that carry the token of the tenant with the event's username.
C20_TenantIsolation ==
    /\ [](\A t \in TenantIDs :
            /\ {ListRecords(t)[i] : i \in 1 .. Len(ListRecords(t))}
                  = {r \in records : r.tenant_id = t}
            /\ Len(ListRecords(t)) = Cardinality({r \in records : r.tenant_id = t}))
    /\ [][\A w \in Workers :
            workers'[w] # workers[w] =>
                \A r \in (records' \ records) \cup (records \ records') :
                    \E t \in tenants :
                        /\ t.username = workers[w].username
                        /\ t.tenant_id = r.tenant_id]_vars

\* C20 witness: the ingestions of two tenants run at the same time, each has
\* written, and the records of each tenant are listed apart.
C20_Witness ==
    /\ Len(ListRecords("t1")) > 0
    /\ Len(ListRecords("t2")) > 0
    /\ Len(ListRecords("t1")) + Len(ListRecords("t2")) = Cardinality(records)
    /\ \A w \in Workers : workers[w].pc = "rows" /\ workers[w].count > 0
    /\ workers["w1"].tenant_id # workers["w2"].tenant_id

\* C18: while two ingestions for one tenant interleave their upserts in any
\* order, every record holds the title, description, category and value of one
\* single row read by one of them, never fields of two rows.
C18_UpsertAtomic ==
    \A r \in records :
        \E w \in Workers :
            \E i \in 1 .. Len(workers[w].rows) :
                /\ r.tenant_id = workers[w].tenant_id
                /\ r.record_key = RowKey(workers[w], i)
                /\ RecordFields(r) = RowFields(workers[w], i)

\* C18 witness: with both ingestions in the middle of their files, the table
\* holds a record written by each of them, the second ingestion having
\* overwritten a record of the first, and a reader has listed the records when
\* only one row had been written.
C18_Witness ==
    /\ \A w \in Workers : workers[w].pc = "rows" /\ Len(workers[w].rows) = 1
    /\ \E r \in records : RecordFields(r) = RowFields(workers["w1"], 1)
    /\ \E r \in records : RecordFields(r) = RowFields(workers["w2"], 1)
    /\ \E p \in Procs :
          /\ procs[p].kind = "list_records"
          /\ procs[p].status = StatusOK
          /\ Len(procs[p].body.value) = 1

\* The (tenant token, record key) pairs of the records table.
RecordPairs(rs) == {<<r.tenant_id, r.record_key>> : r \in rs}

\* C21: no step of any request or ingestion removes a (tenant token, record key)
\* pair from the records table, the deletion of the owning tenant included.
C21_RecordsOnlyGrow ==
    [][RecordPairs(records) \subseteq RecordPairs(records')]_vars

\* C21 witness: the tenant has been deleted (200) and its records are still in
\* the table, under a token no tenant of the registry carries.
C21_Witness ==
    /\ procs["g1"].pc = "done"
    /\ procs["g1"].kind = "delete"
    /\ procs["g1"].status = StatusOK
    /\ tenants = {}
    /\ \E r \in records : r.tenant_id = "t1"

\* C22: the usernames of the rows of table tenants are pairwise distinct and so
\* are their tenant tokens, and a DB.CreateTenant whose username or tenant token
\* is that of a row fails (500) and leaves the table as it was.
C22_Uniqueness ==
    /\ [](\A t, u \in tenants :
            t # u => t.username # u.username /\ t.tenant_id # u.tenant_id)
    /\ [][\A p \in Procs :
            (/\ procs[p].pc = "create_db"
             /\ procs'[p].pc = "done"
             /\ \E t \in tenants : \/ t.username = procs[p].username
                                   \/ t.tenant_id = procs[p].tenant_id)
            => /\ tenants' = tenants
               /\ procs'[p].status = StatusInternalServerError
               /\ procs'[p].body = ErrorBody(<<"insert tenant">>)]_vars

\* C22 witness: a CreateTenant with the username of a row and a fresh tenant
\* token has failed on an insert the storage engine ran, and the table is as
\* it was.
C22_Witness ==
    /\ procs["g1"].pc = "done"
    /\ procs["g1"].kind = "create"
    /\ procs["g1"].status = StatusInternalServerError
    /\ Has(procs["g1"].hist, "db_insert_err")
    /\ Cardinality(tenants) = 1
    /\ \E t \in tenants : /\ t.username = procs["g1"].username
                          /\ t.tenant_id # procs["g1"].tenant_id

\* C23: no step of a ValidateTenant request, whatever it answers, changes the
\* api keys, the tenants, the records or the external server's users.
C23_ValidateReadOnly ==
    [][\A p \in Procs :
         (procs'[p] # procs[p] /\ procs'[p].kind = "validate")
         => UNCHANGED <<apiKeys, tenants, records, extUsers>>]_vars

\* C23 witness: a ValidateTenant has fetched the external user of a tenant and
\* answered that it is valid.
C23_Witness ==
    /\ procs["g1"].pc = "done"
    /\ procs["g1"].kind = "validate"
    /\ procs["g1"].status = StatusOK
    /\ procs["g1"].body = JSONBody([valid |-> TRUE, username |-> "alice"])
    /\ Has(procs["g1"].hist, "get_user")
    /\ \E x \in extUsers : x.username = "alice"

\* The requests of CreateTenant, DeleteTenant, UpdateTenantKeys and
\* ValidateTenant that have failed because of the external server.
ExternalFailures ==
    {p \in Procs : /\ procs[p].pc = "done"
                   /\ procs[p].kind \in {"create", "delete", "update", "validate"}
                   /\ Has(procs[p].hist, "ext_err")}
\* The message of the client's error: that of the token request when no request
\* went to the user endpoint, else that of the user endpoint.
ClientErrors(r) ==
    IF ~\E e \in {"create_user", "delete_user", "update_user", "get_user"} : Has(r.hist, e)
    THEN {"token request failed"}
    ELSE CASE r.kind = "create" -> {"sftpgo create user"}
           [] r.kind = "delete" -> {"sftpgo delete user"}
           [] r.kind = "update" -> {"sftpgo update user keys"}
           [] OTHER -> {"sftpgo get user", "user not found in sftpgo"}

\* C24 as stated: every such request, ValidateTenant included, is answered 502
\* with an error that ends in the client's message.
C24_ExternalFailure502 ==
    \A p \in ExternalFailures :
        /\ procs[p].status = StatusBadGateway
        /\ procs[p].body.kind = "error"
        /\ Last(procs[p].body.error) \in ClientErrors(procs[p])

\* C24 as amended: CreateTenant, DeleteTenant and UpdateTenantKeys answer 502
\* with an error that ends in the client's message; ValidateTenant answers 200
\* with valid false and the client's message as the reason.
C24_ExternalFailureAnswered ==
    \A p \in ExternalFailures :
        IF procs[p].kind = "validate"
        THEN /\ procs[p].status = StatusOK
             /\ procs[p].body.kind = "json"
             /\ DOMAIN procs[p].body.value = {"valid", "reason"}
             /\ procs[p].body.value.valid = FALSE
             /\ Last(procs[p].body.value.reason) \in ClientErrors(procs[p])
        ELSE /\ procs[p].status = StatusBadGateway
             /\ procs[p].body.kind = "error"
             /\ Last(procs[p].body.error) \in ClientErrors(procs[p])

\* C24 witness: an UpdateTenantKeys whose PUT the external server refused has
\* been answered 502, after the registry row was updated.
C24_Witness ==
    /\ procs["g1"].pc = "done"
    /\ procs["g1"].kind = "update"
    /\ procs["g1"].status = StatusBadGateway
    /\ procs["g1"].body.error = <<"db updated but sftpgo failed", "sftpgo update user keys">>
    /\ Has(procs["g1"].hist, "update_user")

\* What a hook call was asked: the method, whether the body decoded, the
\* fields of the body, and whether the storage engine served the lookup.
HookRequest(r) ==
    <<r.method, Has(r.hist, "decode_err"), r.username, r.password, r.public_key,
      Has(r.hist, "db_err")>>

StripSlash(path) ==
    IF path # << >> /\ path[1] = "/" THEN SubSeq(path, 2, Len(path)) ELSE path

\* C26: the external user of a tenant holds the key prefix '<tenant token>/';
\* a successful authentication hook answer for the tenant carries that prefix
\* and the filesystem (bucket, region, endpoint, credentials) the external user
\* was provisioned with; and the object key an ingestion settles on is that
\* prefix followed by the virtual path without its leading slash.
C26_StorageLocation ==
    /\ [](\A t \in tenants : \A x \in extUsers :
            x.username = t.username =>
                x.filesystem.s3config.key_prefix = <<t.tenant_id, "/">>)
    /\ [](\A p \in Procs :
            (/\ procs[p].pc = "done" /\ procs[p].kind = "auth_hook"
             /\ procs[p].status = StatusOK /\ procs[p].body.kind = "json")
            => /\ \E t \in tenants : t.username = procs[p].username
               /\ \A t \in tenants :
                    t.username = procs[p].username =>
                        procs[p].body.value.filesystem.s3config.key_prefix
                            = <<t.tenant_id, "/">>
               /\ \A x \in extUsers :
                    x.username = procs[p].username =>
                        procs[p].body.value.filesystem = x.filesystem)
    /\ [][\A w \in Workers :
            (workers[w].pc = "start" /\ workers'[w].pc = "fetch")
            => /\ \E t \in tenants : t.username = workers[w].username
               /\ \A t \in tenants :
                    t.username = workers[w].username =>
                        workers'[w].object_key
                            = <<t.tenant_id, "/">> \o StripSlash(workers[w].virtual_path)
               /\ \A x \in extUsers :
                    x.username = workers[w].username =>
                        workers'[w].object_key
                            = x.filesystem.s3config.key_prefix
                                \o StripSlash(workers[w].virtual_path)]_vars

\* C26 witness: alice, provisioned under the token t2, has logged in and
\* uploaded /F.CSV; the external user, the hook answer and the object key agree
\* on t2/.
C26_Witness ==
    /\ \E x \in extUsers :
            x.username = "alice" /\ x.filesystem.s3config.key_prefix = <<"t2", "/">>
    /\ procs["g1"].pc = "done"
    /\ procs["g1"].kind = "auth_hook"
    /\ procs["g1"].status = StatusOK
    /\ procs["g1"].body.kind = "json"
    /\ workers["w1"].pc = "fetch"
    /\ workers["w1"].object_key = <<"t2", "/", "F", ".", "C", "S", "V">>

\* How often the event e is in the history h.
Count(h, e) == Cardinality({i \in 1 .. Len(h) : h[i] = e})
\* The requests a client call sends to the user endpoint.
UserRequests == {"create_user", "get_user", "update_user", "delete_user"}
\* The requests that have called the client: each calls it once.
ClientCalls ==
    {p \in Procs : /\ procs[p].pc = "done"
                   /\ \/ Has(procs[p].hist, "ext_ok")
                      \/ Has(procs[p].hist, "ext_err")}

\* C27: a call of CreateUser, GetUser, UpdateUserPublicKeys or DeleteUser sends
\* at most one token request and at most one request to the user endpoint, none
\* after a failed token request, and the handler answers at the client's
\* error with nothing sent after it.
C27_NoRetry ==
    \A p \in ClientCalls :
        LET h == procs[p].hist
            users == {i \in 1 .. Len(h) : h[i] \in UserRequests}
        IN
        /\ Count(h, "token_request") <= 1
        /\ Cardinality(users) <= 1
        /\ Count(h, "ext_ok") + Count(h, "ext_err") = 1
        /\ Last(h) \in {"ext_ok", "ext_err"} \/ procs[p].kind = "create"
        /\ Has(h, "ext_err") => Last(h) = "ext_err"
        /\ (Has(h, "ext_err") /\ users = {}) => Count(h, "token_request") = 1
        /\ (Has(h, "ext_ok") => Cardinality(users) = 1)

\* C27 witness: a DeleteTenant whose DELETE the external server refused under a
\* fresh token: one token request, one DELETE, then the 502.
C27_Witness ==
    /\ procs["g1"].pc = "done"
    /\ procs["g1"].kind = "delete"
    /\ procs["g1"].status = StatusBadGateway
    /\ procs["g1"].hist
         = <<"db_select_ok", "db_delete_ok", "token_request", "delete_user", "ext_err">>

C29_LookupFailure500 ==
    \A p \in Procs :
        (/\ procs[p].pc = "done"
         /\ procs[p].kind \in {"get", "delete", "validate", "update", "list_records"})
        => /\ Has(procs[p].hist, "db_err") => procs[p].status = StatusInternalServerError
           /\ procs[p].status = StatusNotFound => Has(procs[p].hist, "db_no_row")

\* The events of a request's history that are registry statements.
DbEvents ==
    {"db_err", "db_no_row", "db_select_ok", "db_insert_ok", "db_insert_err",
     "db_delete_ok", "db_delete_err", "db_update_ok", "db_update_err",
     "db_list_ok", "db_list_err"}
\* The number of registry statements a request has run.
DbOps(h) == Cardinality({i \in 1 .. Len(h) : h[i] \in DbEvents})

\* C30: when the storage handle is closed no request is in flight, and no
\* request runs a registry statement on the closed handle.
C30_GracefulDrain ==
    /\ [](~HandleOpen => \A p \in Procs : procs[p].pc \in {"idle", "done"})
    /\ [][~HandleOpen =>
            \A p \in Procs : DbOps(procs'[p].hist) <= DbOps(procs[p].hist)]_vars


\* The goroutine p is answered in this step, having started on a request of
\* the kind.
AnsweredNow(p, kind) ==
    /\ procs[p].pc # "done"
    /\ procs'[p].pc = "done"
    /\ procs'[p].kind = kind

\* C31: the password a CreateTenant answered 201 returns (never empty: the
\* supplied one or a generated one) is the password of the row it wrote and of
\* the user it created on the external server; a row keeps its password as long
\* as it exists; and an authentication hook request that reads the row of its
\* username is answered 200 with status 1 when it carries the row's password,
\* and 403 when it carries another password and no matching public key.
C31_PasswordRoundTrip ==
    /\ [](\A p \in Procs :
            LET r == procs[p] IN
            (r.pc = "done" /\ r.kind = "create" /\ r.status = StatusCreated) =>
                /\ r.body.value.password \in LoginPasswords \ {""}
                /\ \E t \in tenants :
                        /\ t.id = r.id
                        /\ t.username = r.username
                        /\ t.tenant_id = r.body.value.tenant_id
                        /\ t.password = r.body.value.password
                /\ \E x \in extUsers :
                        x.username = r.username /\ x.password = r.body.value.password)
    /\ [][/\ \A t \in tenants, u \in tenants' :
                (t.id = u.id /\ t.tenant_id = u.tenant_id) => u.password = t.password
          /\ \A p \in Procs :
                (AnsweredNow(p, "auth_hook") /\ Has(procs'[p].hist, "db_select_ok")) =>
                    LET a == procs'[p]
                        row == GetTenantByUsername(a.username)
                    IN
                    /\ a.password = row.password =>
                            /\ a.status = StatusOK
                            /\ a.body.kind = "json"
                            /\ a.body.value.status = 1
                            /\ a.body.value.username = a.username
                    /\ (a.password # row.password
                            /\ ~PublicKeyAuth(a.public_key, row.public_key)) =>
                            a.status = StatusForbidden]_vars

\* A login with the generated password of a tenant that is in the registry is
\* answered 200, and one with another password 403: here the first.
C31_Witness ==
    \E p \in Procs :
        /\ procs[p].pc = "done"
        /\ procs[p].kind = "auth_hook"
        /\ procs[p].status = StatusOK
        /\ procs[p].password \in GenPasswords
        /\ procs[p].public_key = EmptyKey
        /\ \E t \in tenants : t.username = procs[p].username /\ t.password = procs[p].password


\* C32: a DeleteTenant call succeeds, and goes on to the external delete-user
\* call, only by removing the row of its id, whose username it returns, and a
\* call answered "not found" leaves the registry as it was; so of the calls
\* for one row, overlapping ones too, at most one succeeds and the external
\* delete is issued at most once per deleted tenant.
C32_DeleteExactlyOnce ==
    [][\A p \in Procs :
          /\ (procs[p].pc = "delete_db" /\ procs'[p].pc = "delete_ext") =>
                /\ RowsById(procs[p].id) # {}
                /\ GetTenant(procs[p].id).username = procs'[p].username
                /\ tenants' = tenants \ RowsById(procs[p].id)
          /\ (AnsweredNow(p, "delete") /\ procs'[p].status = StatusNotFound) =>
                tenants' = tenants
          /\ Count(procs'[p].hist, "delete_user") > Count(procs[p].hist, "delete_user") =>
                Has(procs[p].hist, "db_delete_ok")]_vars


\* C33: every username of the registry is the name of a user on the external
\* server, in every reachable state of concurrent create, delete and rotate
\* requests whose calls may fail.
C33_OrphansOnlyExternal ==
    \A t \in tenants : t.username \in ExtNames


\* The goroutine p is within an UpdateTenantKeys request.
Rotating(p) == procs[p].pc \in {"update_db", "update_ext"}

\* The public keys the external server holds for a registry row.
KeysOf(t) == IF t.public_key = EmptyKey THEN << >> ELSE <<t.public_key>>

\* C34: when no call fails and no UpdateTenantKeys request is in flight, the
\* public key of every registry row is the public key of the external
\* server's user of that username.
C34_RotationsConverge ==
    (\A p \in Procs : ~Rotating(p)) =>
        \A t \in tenants, x \in extUsers :
            x.username = t.username => x.public_keys = KeysOf(t)


\* C35: the DELETE of DeleteTenant leaves no row of the username it resolved,
\* whatever the external delete that follows returns; a row of a username
\* appears only with a CreateTenant answered 201 for that username; and every
\* authentication hook request that decodes and names a username without a
\* row is answered 403 with an empty body.
C35_DeletedRejected ==
    [][/\ \A p \in Procs :
            (procs[p].pc = "delete_db" /\ procs'[p].pc \in {"delete_ext", "done"}
                /\ Has(procs'[p].hist, "db_delete_ok")) =>
                    \A t \in tenants' : t.username # procs'[p].username
       /\ \A p \in Procs :
            (procs[p].pc = "delete_ext" /\ procs'[p].pc = "done") => tenants' = tenants
       /\ \A u \in Usernames :
            (RowsByUsername(u) = {} /\ \E t \in tenants' : t.username = u) =>
                \E p \in Procs :
                    /\ AnsweredNow(p, "create")
                    /\ procs'[p].status = StatusCreated
                    /\ procs'[p].username = u
       /\ \A p \in Procs :
            (AnsweredNow(p, "auth_hook") /\ procs'[p].method = "POST"
                /\ ~Has(procs'[p].hist, "decode_err")
                /\ RowsByUsername(procs'[p].username) = {}) =>
                    /\ procs'[p].status = StatusForbidden
                    /\ procs'[p].body = TextBody("")]_vars

\* A login with the password of the external user is answered 403 for want of
\* a row, while the DeleteTenant that removed the row stands answered 502 and
\* the external user is still there.
C35_Witness ==
    \E p, q \in Procs :
        /\ procs[p].pc = "done" /\ procs[p].kind = "delete"
        /\ procs[p].status = StatusBadGateway
        /\ procs[q].pc = "done" /\ procs[q].kind = "auth_hook"
        /\ procs[q].username = procs[p].username
        /\ procs[q].status = StatusForbidden
        /\ Has(procs[q].hist, "db_no_row")
        /\ \E x \in extUsers : x.username = procs[q].username /\ x.password = procs[q].password
        /\ RowsByUsername(procs[q].username) = {}


\* The goroutine p is within an UpdateTenantKeys request, or has just been
\* answered one, whose UPDATE of the row has been committed.
Committed(p) == procs[p].kind = "update" /\ Has(procs[p].hist, "db_update_ok")

\* C36: the UPDATE of UpdateTenantKeys makes the request's key the key of the
\* row, and the external call that follows changes no row whatever it
\* returns; from the commit on, a login for the tenant is authenticated by
\* public key when its key has the key material of the new key, and is not
\* authenticated by public key when its key material is another one, the old
\* key's included.
C36_NewKeyAtCommit ==
    [][/\ \A p \in Procs :
            (procs[p].pc = "update_db" /\ procs'[p].pc = "update_ext") =>
                \A t \in tenants' : t.id = procs[p].id => t.public_key = procs[p].public_key
       /\ \A p \in Procs :
            (procs[p].pc = "update_ext" /\ procs'[p].pc = "done") => tenants' = tenants
       /\ \A p, q \in Procs :
            (/\ Committed(p)
             /\ AnsweredNow(q, "auth_hook")
             /\ Has(procs'[q].hist, "db_select_ok")
             /\ \E t \in RowsById(procs[p].id) : t.username = procs'[q].username) =>
                LET new == procs[p].public_key
                    a == procs'[q]
                IN
                /\ (KeyMaterial(new) # << >> /\ KeyMaterial(a.public_key) = KeyMaterial(new)) =>
                        /\ a.status = StatusOK
                        /\ Has(a.hist, "public_key")
                /\ KeyMaterial(a.public_key) # KeyMaterial(new) =>
                        ~Has(a.hist, "public_key")]_vars

\* The rotation was answered 502, the external server still lists the old key,
\* and a login with the key material of the new key is accepted.
C36_Witness ==
    \E p, q \in Procs :
        /\ Committed(p) /\ procs[p].pc = "done" /\ procs[p].status = StatusBadGateway
        /\ procs[q].pc = "done" /\ procs[q].kind = "auth_hook"
        /\ procs[q].status = StatusOK
        /\ Has(procs[q].hist, "public_key")
        /\ KeyMaterial(procs[q].public_key) = KeyMaterial(procs[p].public_key)
        /\ \E x \in extUsers :
              /\ x.username = procs[q].username
              /\ x.public_keys = <<KeyA>>
              /\ KeyMaterial(KeyA) # KeyMaterial(procs[p].public_key)


\* The tenant tokens of the registry.
Tokens == {t.tenant_id : t \in tenants}

\* C37: an ingestion keeps the tenant token it resolved before fetching the
\* object; every row it reads that parses and whose upsert does not fail is
\* written under that token, whether or not a tenant still carries it; no
\* step removes a record; and a list request is answered 404 for an id
\* without a row and otherwise returns only records under the token of the
\* row of its id, so the records under a token that no tenant carries are in
\* no answer.
C37_IngestionOutlivesTenant ==
    [][/\ \A w \in Workers :
            (workers[w].pc \in {"fetch", "rows"} /\ workers'[w].pc # "idle") =>
                workers'[w].tenant_id = workers[w].tenant_id
       /\ \A w \in Workers :
            (workers[w].pc = "rows" /\ Len(workers'[w].rows) > Len(workers[w].rows)) =>
                LET j == workers'[w]
                    i == Len(j.rows)
                IN
                Written(j, i) =>
                    \E r \in records' :
                        /\ r.tenant_id = j.tenant_id
                        /\ r.record_key = RowKey(j, i)
                        /\ RecordFields(r) = RowFields(j, i)
       /\ RecordPairs(records) \subseteq RecordPairs(records')
       /\ \A p \in Procs :
            AnsweredNow(p, "list_records") =>
                LET a == procs'[p] IN
                IF RowsById(a.id) = {}
                THEN a.status = StatusNotFound
                ELSE a.status = StatusOK =>
                        \A i \in 1 .. Len(a.body.value) :
                            a.body.value[i].tenant_id = GetTenant(a.id).tenant_id]_vars

\* The tenant is gone, its ingestion is still in its loop and has written a
\* row, the records are in the table under a token no tenant carries, and the
\* list request for the tenant's id was answered 404.
C37_Witness ==
    /\ procs["g1"].pc = "done"
    /\ procs["g1"].kind = "list_records"
    /\ procs["g1"].status = StatusNotFound
    /\ \E w \in Workers :
          /\ workers[w].pc = "rows"
          /\ workers[w].count > 0
          /\ workers[w].tenant_id \notin Tokens
          /\ \E r \in records : r.tenant_id = workers[w].tenant_id


\* C38: a row id is given to one tenant only: a CreateTenant answered 201
\* never carries the id of a DeleteTenant that removed the row of another
\* username, and a row written by an INSERT has an id above the id of every
\* request that removed one.
C38_IdNeverReused ==
    /\ [](\A p, q \in Procs :
            (/\ procs[p].pc = "done" /\ procs[p].kind = "delete"
             /\ Has(procs[p].hist, "db_delete_ok")
             /\ procs[q].pc = "done" /\ procs[q].kind = "create"
             /\ procs[q].status = StatusCreated
             /\ procs[q].id = procs[p].id) =>
                procs[q].username = procs[p].username)
    /\ [][\A u \in tenants' \ tenants, p \in Procs :
            (procs[p].kind = "delete" /\ Has(procs[p].hist, "db_delete_ok")
                /\ RowsById(procs[p].id) = {}) =>
                u.id # procs[p].id]_vars


\* C39: a getToken call that returns an error leaves c.token and c.tokenExp as
\* they were, and the two change only in a step in which a getToken call
\* returns, without error, the token of a token request it sent, which is then
\* the cached token.
C39_FailedTokenKeepsCache ==
    [][/\ \A p \in Procs :
            (AnsweredNow(p, "get_token") /\ procs'[p].body.kind = "error") =>
                /\ token' = token
                /\ tokenExp' = tokenExp
       /\ <<token, tokenExp>>' # <<token, tokenExp>> =>
            \E p \in Procs :
                /\ AnsweredNow(p, "get_token")
                /\ procs'[p].body.kind = "json"
                /\ Has(procs'[p].hist, "token_request")
                /\ procs'[p].body.value.token = token']_vars

\* A token request failed while the cache held a token past its expiry, and
\* the cache still holds that token.
C39_Witness ==
    \E p \in Procs :
        /\ procs[p].pc = "done"
        /\ procs[p].kind = "get_token"
        /\ procs[p].body.kind = "error"
        /\ Has(procs[p].hist, "token_request")
        /\ token # ""
        /\ now >= tokenExp


\* C40: the lock is held only by a goroutine whose token request is in
\* flight, so every return of getToken, with a token or with an error, has
\* released it; and when token requests return and waiters are not starved,
\* every goroutine blocked on the lock acquires it and every getToken call
\* returns.
C40_LockReleased ==
    /\ [](\A p \in Procs : mu = p => procs[p].pc = "tok_flight")
    /\ \A p \in Procs :
          /\ (procs[p].pc = "tok_wait") ~> (procs[p].pc \in {"tok_flight", "done"})
          /\ (procs[p].pc \in {"tok_wait", "tok_flight"}) ~> (procs[p].pc = "done")

\* A token request failed; the goroutine that was blocked meanwhile holds the
\* lock and has sent a request of its own.
C40_Witness ==
    \E p, q \in Procs :
        /\ procs[p].pc = "done"
        /\ procs[p].kind = "get_token"
        /\ procs[p].body.kind = "error"
        /\ procs[q].pc = "tok_flight"
        /\ Has(procs[q].hist, "blocked")
        /\ mu = q

====
